---- MODULE Spec2Model ----
(***************************************************************************)
(* State/API core of the FeedValue SDK (packages/core): the ApiClient      *)
(* (config cache, request deduplication, submission token, 403 retry) and  *)
(* the FeedValue controller (instance registry, init/destroy lifecycle,    *)
(* state snapshot).                                                        *)
(*                                                                         *)
(* Time is counted in whole seconds (now); Date.now() is now * 1000 ms.    *)
(* Every network request is one entry of net; a config request stands for  *)
(* the promise returned by doFetchConfig.  A token or a config payload is  *)
(* named by the index of the config request whose response carried it, so  *)
(* two responses never carry the same token.                               *)
(***************************************************************************)
EXTENDS Integers, Sequences, FiniteSets, TLC

VARIABLES
    now,               \* wall clock, seconds
    ticks,             \* number of clock advances so far
    configCache,       \* ApiClient.configCache: client -> widget id -> entry
    pendingRequests,   \* ApiClient.pendingRequests: client -> widget id -> config request (0: none)
    submissionToken,   \* ApiClient.submissionToken: client -> token (0: null)
    tokenExpiresAt,    \* ApiClient.tokenExpiresAt: client -> seconds (0: null)
    fingerprint,       \* ApiClient.fingerprint: client -> string ("": null)
    net,               \* network requests issued through fetch(), in order
    calls,             \* asynchronous calls (fetchConfig, submitFeedback, init), in order
    lastValid,         \* last hasValidToken() call: client and returned value
    instances,         \* registry: widget id -> instance (0: none)
    insts,             \* every FeedValue object constructed so far
    lastInit,          \* last static FeedValue.init(): widget id, options and returned instance
    session            \* the browser session: the sessionStorage item of the fingerprint

apiVars == <<configCache, pendingRequests, submissionToken, tokenExpiresAt, fingerprint>>
ctlVars == <<instances, insts, lastInit>>
vars == <<now, ticks, configCache, pendingRequests, submissionToken, tokenExpiresAt,
          fingerprint, net, calls, lastValid, instances, insts, lastInit, session>>

----------------------------------------------------------------------------
(* Bounds *)

MaxTicks == 2
MaxCalls == 3
MaxReqs == 4
MaxInst == 3
MaxSubmitCalls == 2
MaxSubmitTicks == 1
MaxRegs == 1
MaxInits == 2
MaxWidgets == 1
MaxFeedbackCalls == 2
MaxSnapshots == 4
MaxListeners == 2
MaxEmitDepth == 2
MaxWaiters == 2
MaxFingerprintCalls == 4

----------------------------------------------------------------------------
(* Program constants *)

TOKEN_EXPIRY_BUFFER_SECONDS == 30

CONFIG_CACHE_TTL_MS == 5 * 60 * 1000

MaxWidgetIdLength == 64

----------------------------------------------------------------------------
(* Inputs *)

\* clock advances, seconds: 1 + 299 reaches the cache expiry exactly
Deltas == {1, 299}

\* token lifetimes a config response can carry (token_expires_at - now); 0: field absent
TokenOffsets == {0, 29, 31}

W1 == <<"w", "1">>

W2 == <<"w", "2">>

WBad == <<"w", "/">>

ValidChars == {"w", "1", "2", "_", "-"}

GoodIds == {W1, W2}

AllIds == {W1, W2, WBad}

\* values of options.config given to FeedValue.init (the theme)
Options == {"light", "dark"}

Callbacks == {"cb1"}

Handlers == {"h1"}

Events == {"ready", "error"}

Clients == 1..MaxInst

\* ch.repeat(n): the strings the feedback inputs are made of
Repeat(ch, n) == [ch |-> ch, n |-> n]

\* feedback inputs: message, sentiment, and the value of one metadata field
Feedback(msg, sentiment, meta) ==
    [message |-> msg, sentiment |-> sentiment, metadata |-> meta]

Feedbacks ==
    {Feedback(Repeat("a", 1), "none", Repeat("a", 0)),
     Feedback(Repeat("a", 0), "none", Repeat("a", 0)),
     Feedback(Repeat(" ", 3), "none", Repeat("a", 0)),
     Feedback(Repeat("a", 10000), "satisfied", Repeat("a", 1000)),
     Feedback(Repeat("a", 10001), "none", Repeat("a", 0)),
     Feedback(Repeat("a", 1), "invalid-sentiment", Repeat("a", 0)),
     Feedback(Repeat("a", 1), "none", Repeat("a", 1001))}

Fingerprints == {"fp"}

PostResponses == {"ok", "blocked", "429", "403plan", "403token", "403other", "500", "neterr"}

----------------------------------------------------------------------------
(* Values *)

NoEntry == [data |-> 0, expiresAt |-> 0]

\* _userId = null, and the empty object {} of _userData and _userTraits
NoUser == "null"

NoData == [k \in {} |-> ""]

NoResult == [st |-> "none", kind |-> "", r |-> 0]

Ok(kind, r) == [st |-> "ok", kind |-> kind, r |-> r]

Err(kind, r) == [st |-> "err", kind |-> kind, r |-> r]

DateNow == now * 1000

\* the oldest fetchConfig(w) call of client c that has not settled yet (0: none)
Leader(c, w) ==
    LET open == {j \in 1..Len(calls) : /\ calls[j].op = "fetchConfig"
                                        /\ calls[j].c = c
                                        /\ calls[j].wid = w
                                        /\ calls[j].pc # "done"}
    IN IF open = {} THEN 0 ELSE CHOOSE j \in open : \A i \in open : j <= i

\* A call record.  pc is the suspension point the call waits at; the other
\* fields record what the call did: valid (hasValidToken() at the start of
\* submitFeedback), ref1/req1 (how the first fetchConfig was served and the
\* config request awaited), p1 (first POST), ref2/req2 (the fetchConfig of the
\* 403 branch), p2 (retried POST), lead (Leader at the time of the call),
\* orphan (destroy() ran on the instance while this init() was in flight).
NewCall(op, c, w) ==
    [op |-> op, c |-> c, wid |-> w, pc |-> "done", valid |-> FALSE, lead |-> 0,
     orphan |-> FALSE,
     ref1 |-> "none", req1 |-> 0, p1 |-> 0,
     ref2 |-> "none", req2 |-> 0, p2 |-> 0, res |-> NoResult]

NewReq(kind, c, w, tok) ==
    [kind |-> kind, c |-> c, wid |-> w, token |-> tok, fp |-> fingerprint[c],
     st |-> "inflight"]

Settled(r) == net[r].st # "inflight"

\* the config request a suspended call waits for
Awaited(k) ==
    IF calls[k].pc \in {"sf_retry_own", "sf_retry_join"} THEN calls[k].req2 ELSE calls[k].req1

\* a continuation of an already settled promise is queued: the event loop runs
\* it before it starts another task (a timer, a network response)
MicrotaskPending ==
    \E k \in 1..Len(calls) :
        \/ /\ calls[k].pc \in {"sf_ref_own", "sf_ref_join", "sf_retry_own", "sf_retry_join",
                              "in_own", "in_join"}
           /\ Settled(Awaited(k))
        \/ calls[k].pc = "in_fp"
        \/ /\ calls[k].pc = "done"
           /\ \E i \in 1..Len(insts) : \E p \in insts[i].pending : p.call = k

\* result of awaiting the doFetchConfig promise of config request r
PromiseResult(r) ==
    IF net[r].st = "ok" THEN Ok("config", r) ELSE Err("fail", r)

----------------------------------------------------------------------------
(* ApiClient: pure parts *)

\* validateWidgetId without the length check
validateWidgetId_NoLength(w) ==
    IF Len(w) = 0 THEN "required"
    ELSE IF \E i \in 1..Len(w) : w[i] \notin ValidChars THEN "format"
    ELSE "ok"

validateWidgetId(w) ==
    IF Len(w) = 0 THEN "required"
    ELSE IF \E i \in 1..Len(w) : w[i] \notin ValidChars THEN "format"
    ELSE IF Len(w) > MaxWidgetIdLength THEN "length"
    ELSE "ok"

\* hasValidToken without the 30 s buffer
hasValidToken_NoBuffer(c) ==
    IF submissionToken[c] = 0 \/ tokenExpiresAt[c] = 0
    THEN FALSE
    ELSE now < tokenExpiresAt[c]

hasValidToken(c) ==
    IF submissionToken[c] = 0 \/ tokenExpiresAt[c] = 0
    THEN FALSE
    ELSE now < tokenExpiresAt[c] - TOKEN_EXPIRY_BUFFER_SECONDS

\* the cache check with the entry still served at its expiry instant
CacheHit_Inclusive(c, w) ==
    /\ configCache[c][w].data # 0
    /\ DateNow <= configCache[c][w].expiresAt

CacheHit(c, w) ==
    /\ configCache[c][w].data # 0
    /\ DateNow < configCache[c][w].expiresAt

\* fetchConfig without the lookup in pendingRequests
FetchKind_NoDedup(c, w) ==
    IF CacheHit(c, w) THEN "cache" ELSE "net"

\* how fetchConfig(w) proceeds up to its first suspension point
FetchKind(c, w) ==
    IF CacheHit(c, w) THEN "cache"
    ELSE IF pendingRequests[c][w] # 0 THEN "join"
    ELSE "net"

\* the config request a fetchConfig(w) call ends up awaiting (0 on a cache hit)
FetchReq(c, w) ==
    CASE FetchKind(c, w) = "cache" -> 0
      [] FetchKind(c, w) = "join" -> pendingRequests[c][w]
      [] OTHER -> Len(net) + 1

\* net and pendingRequests after the synchronous part of fetchConfig(w)
NetAfterFetch(c, w) ==
    IF FetchKind(c, w) = "net" THEN Append(net, NewReq("config", c, w, 0)) ELSE net

PendingAfterFetch(c, w) ==
    IF FetchKind(c, w) = "net"
    THEN [pendingRequests EXCEPT ![c][w] = Len(net) + 1]
    ELSE pendingRequests

\* fetchConfig without its finally block
PendingAfterFinally_Kept(c, w) == pendingRequests

\* the finally block of fetchConfig, run by the call that issued the request
PendingAfterFinally(c, w) == [pendingRequests EXCEPT ![c][w] = 0]

CanIssue(n) == Len(net) + n <= MaxReqs

----------------------------------------------------------------------------
(* ApiClient: operations *)

setFingerprint(c, fp) ==
    /\ fingerprint' = [fingerprint EXCEPT ![c] = fp]
    /\ UNCHANGED <<session, now, ticks, configCache, pendingRequests, submissionToken,
                   tokenExpiresAt, net, calls, lastValid, ctlVars>>

\* a hasValidToken() call; lastValid records what it returned and the clock,
\* token and expiry it was called with
hasValidTokenCall(c) ==
    /\ lastValid' = [c |-> c, value |-> hasValidToken(c), at |-> now,
                     token |-> submissionToken[c], exp |-> tokenExpiresAt[c]]
    /\ UNCHANGED <<session, now, ticks, apiVars, net, calls, ctlVars>>

\* clearCache that leaves the config map as it is
CacheCleared_Kept(c) == configCache

\* the three assignments of clearCache
CacheCleared(c) == [configCache EXCEPT ![c] = [w \in GoodIds |-> NoEntry]]

TokenCleared(c) == [submissionToken EXCEPT ![c] = 0]

ExpiryCleared(c) == [tokenExpiresAt EXCEPT ![c] = 0]

clearCache(c) ==
    /\ configCache' = CacheCleared(c)
    /\ submissionToken' = TokenCleared(c)
    /\ tokenExpiresAt' = ExpiryCleared(c)
    /\ UNCHANGED <<session, now, ticks, pendingRequests, fingerprint, net, calls, lastValid, ctlVars>>

\* fetchConfig(w), from the call to its first suspension point
fetchConfig(c, w) ==
    /\ Len(calls) < MaxCalls
    /\ IF validateWidgetId(w) # "ok"
       THEN /\ calls' = Append(calls, [NewCall("fetchConfig", c, w) EXCEPT
                                          !.res = Err(validateWidgetId(w), 0)])
            /\ UNCHANGED <<net, pendingRequests>>
       ELSE /\ FetchKind(c, w) = "net" => CanIssue(1)
            /\ net' = NetAfterFetch(c, w)
            /\ pendingRequests' = PendingAfterFetch(c, w)
            /\ calls' = Append(calls, [NewCall("fetchConfig", c, w) EXCEPT
                   !.lead = Leader(c, w),
                   !.ref1 = FetchKind(c, w),
                   !.req1 = FetchReq(c, w),
                   !.pc = CASE FetchKind(c, w) = "cache" -> "done"
                            [] FetchKind(c, w) = "join" -> "fc_join"
                            [] OTHER -> "fc_own",
                   !.res = IF FetchKind(c, w) = "cache"
                           THEN Ok("config", configCache[c][w].data)
                           ELSE NoResult])
    /\ UNCHANGED <<session, now, ticks, configCache, submissionToken, tokenExpiresAt,
                   fingerprint, lastValid, ctlVars>>

\* The task in which the fetch() of config request r settles.  doFetchConfig
\* throws on a failure; on a success it stores the token (when the response
\* carries one) and caches the response.  The fetchConfig call that issued the
\* request resumes first: its finally block deletes the pending entry, and the
\* call returns or throws.  The deduplicated fetchConfig calls, which returned
\* the pending promise, settle with it.
doFetchConfigReturn(r, ok, hasToken, off) ==
    /\ r \in 1..Len(net)
    /\ net[r].kind = "config"
    /\ net[r].st = "inflight"
    /\ ~MicrotaskPending
    /\ LET c == net[r].c
           w == net[r].wid
           result == IF ok THEN Ok("config", r) ELSE Err("fail", r)
       IN /\ IF ~ok
             THEN /\ net' = [net EXCEPT ![r].st = "fail"]
                  /\ UNCHANGED <<configCache, submissionToken, tokenExpiresAt>>
             ELSE /\ net' = [net EXCEPT ![r].st = "ok",
                                        ![r].token = IF hasToken THEN r ELSE 0]
                  /\ IF hasToken
                     THEN /\ submissionToken' = [submissionToken EXCEPT ![c] = r]
                          /\ tokenExpiresAt' = [tokenExpiresAt EXCEPT
                                                   ![c] = IF off = 0 THEN 0 ELSE now + off]
                     ELSE UNCHANGED <<submissionToken, tokenExpiresAt>>
                  /\ configCache' = [configCache EXCEPT ![c][w] =
                                        [data |-> r, expiresAt |-> DateNow + CONFIG_CACHE_TTL_MS]]
          /\ pendingRequests' = PendingAfterFinally(c, w)
          /\ calls' = [k \in 1..Len(calls) |->
                          IF calls[k].pc \in {"fc_own", "fc_join"} /\ calls[k].req1 = r
                          THEN [calls[k] EXCEPT !.pc = "done", !.res = result]
                          ELSE calls[k]]
    /\ UNCHANGED <<session, now, ticks, fingerprint, lastValid, ctlVars>>

----------------------------------------------------------------------------
(* ApiClient.submitFeedback *)

\* the error or value submitFeedback derives from the response to its first POST
\* (every response except a token-rejection 403, which starts the refresh)
FirstPostResult(resp, p) ==
    CASE resp = "429" -> Err("ratelimit", p)
      [] resp = "403plan" -> Err("plan", p)
      [] resp = "403other" -> Err("403", p)
      [] resp = "500" -> Err("http", p)
      [] resp = "neterr" -> Err("network", p)
      [] resp = "blocked" -> Err("blocked", p)
      [] OTHER -> Ok("response", p)

\* what submitFeedback returns or throws after the retried POST p2 settles;
\* p1 is the first POST, whose 403 message is the one thrown at the end of the 403 branch
RetryPostResult(resp, p1, p2) ==
    CASE resp = "ok" -> Ok("response", p2)
      [] resp = "blocked" -> Ok("blocked", p2)
      [] resp = "neterr" -> Err("network", p2)
      [] OTHER -> Err("403", p1)

\* a 403 that names a plan limit is treated as a token rejection too
TokenRejected_Any403(resp) == resp \in {"403token", "403plan"}

\* every failed POST is treated as a token rejection
TokenRejected_AnyFailure(resp) == resp \notin {"ok", "blocked"}

\* the 403 whose detail is a string naming the token or its expiry: the only
\* response after which submitFeedback refreshes the token and retries
TokenRejected(resp) == resp = "403token"

\* submitFeedback(w), from the call to its first suspension point: what it
\* does to the client, the network and its own call record
submitFeedbackStart(c, w) ==
    /\ Len(calls) < MaxCalls
    /\ LET base == [NewCall("submitFeedback", c, w) EXCEPT !.valid = hasValidToken(c)]
           kind == FetchKind(c, w)
       IN IF validateWidgetId(w) # "ok"
          THEN /\ calls' = Append(calls, [base EXCEPT !.valid = FALSE,
                                             !.res = Err(validateWidgetId(w), 0)])
               /\ UNCHANGED <<net, pendingRequests>>
          ELSE IF hasValidToken(c)
          THEN /\ CanIssue(1)
               /\ net' = Append(net, NewReq("post", c, w, submissionToken[c]))
               /\ calls' = Append(calls, [base EXCEPT !.pc = "sf_post", !.p1 = Len(net) + 1])
               /\ UNCHANGED pendingRequests
          ELSE IF kind = "cache"
          THEN /\ UNCHANGED pendingRequests
               /\ IF submissionToken[c] = 0
                  THEN /\ calls' = Append(calls, [base EXCEPT !.ref1 = "cache",
                                                     !.res = Err("notoken", 0)])
                       /\ UNCHANGED net
                  ELSE /\ CanIssue(1)
                       /\ net' = Append(net, NewReq("post", c, w, submissionToken[c]))
                       /\ calls' = Append(calls, [base EXCEPT !.ref1 = "cache",
                                                     !.pc = "sf_post", !.p1 = Len(net) + 1])
          ELSE /\ kind = "net" => CanIssue(1)
               /\ net' = NetAfterFetch(c, w)
               /\ pendingRequests' = PendingAfterFetch(c, w)
               /\ calls' = Append(calls, [base EXCEPT !.ref1 = kind, !.req1 = FetchReq(c, w),
                      !.pc = IF kind = "join" THEN "sf_ref_join" ELSE "sf_ref_own"])

\* submitFeedback(w) called on the client directly
submitFeedback(c, w) ==
    /\ submitFeedbackStart(c, w)
    /\ UNCHANGED <<session, now, ticks, configCache, submissionToken, tokenExpiresAt,
                   fingerprint, lastValid, ctlVars>>

\* submitFeedback resumes after the fetchConfig it awaited before its first POST
submitAfterRefresh(k) ==
    /\ k \in 1..Len(calls)
    /\ calls[k].pc \in {"sf_ref_own", "sf_ref_join"}
    /\ Settled(calls[k].req1)
    /\ LET c == calls[k].c
           w == calls[k].wid
       IN /\ IF net[calls[k].req1].st # "ok"
             THEN /\ calls' = [calls EXCEPT ![k].pc = "done",
                                            ![k].res = PromiseResult(calls[k].req1)]
                  /\ UNCHANGED net
             ELSE IF submissionToken[c] = 0
             THEN /\ calls' = [calls EXCEPT ![k].pc = "done", ![k].res = Err("notoken", 0)]
                  /\ UNCHANGED net
             ELSE /\ CanIssue(1)
                  /\ net' = Append(net, NewReq("post", c, w, submissionToken[c]))
                  /\ calls' = [calls EXCEPT ![k].pc = "sf_post", ![k].p1 = Len(net) + 1]
    /\ UNCHANGED <<session, now, ticks, apiVars, lastValid, ctlVars>>

\* submitFeedback calls that share one pending POST: the response settles
\* every call that waits for its first POST
submitOnResponse_Shared(k, resp) ==
    /\ k \in 1..Len(calls)
    /\ calls[k].pc = "sf_post"
    /\ ~TokenRejected(resp)
    /\ ~MicrotaskPending
    /\ net' = [net EXCEPT ![calls[k].p1].st = resp]
    /\ calls' = [j \in 1..Len(calls) |->
                    IF calls[j].pc = "sf_post"
                    THEN [calls[j] EXCEPT !.pc = "done",
                                          !.res = FirstPostResult(resp, calls[k].p1)]
                    ELSE calls[j]]
    /\ UNCHANGED <<session, now, ticks, apiVars, lastValid, ctlVars>>

\* the first POST settles with resp and submitFeedback handles it; on a
\* token-rejection 403 it clears the token and calls fetchConfig again
submitOnResponse(k, resp) ==
    /\ k \in 1..Len(calls)
    /\ calls[k].pc = "sf_post"
    /\ ~MicrotaskPending
    /\ LET c == calls[k].c
           w == calls[k].wid
           p == calls[k].p1
           kind == FetchKind(c, w)
           answered == [net EXCEPT ![p].st = resp]
       IN IF ~TokenRejected(resp)
          THEN /\ net' = answered
               /\ calls' = [calls EXCEPT ![k].pc = "done", ![k].res = FirstPostResult(resp, p)]
               /\ UNCHANGED <<pendingRequests, submissionToken>>
          ELSE /\ submissionToken' = [submissionToken EXCEPT ![c] = 0]
               /\ IF kind = "cache"
                  THEN /\ net' = answered
                       /\ calls' = [calls EXCEPT ![k].pc = "done", ![k].ref2 = "cache",
                                                 ![k].res = Err("403", p)]
                       /\ UNCHANGED pendingRequests
                  ELSE /\ kind = "net" => CanIssue(1)
                       /\ net' = IF kind = "net"
                                 THEN Append(answered, NewReq("config", c, w, 0))
                                 ELSE answered
                       /\ pendingRequests' = PendingAfterFetch(c, w)
                       /\ calls' = [calls EXCEPT ![k].ref2 = kind, ![k].req2 = FetchReq(c, w),
                              ![k].pc = IF kind = "join" THEN "sf_retry_join" ELSE "sf_retry_own"]
    /\ UNCHANGED <<session, now, ticks, configCache, tokenExpiresAt, fingerprint, lastValid, ctlVars>>

\* submitFeedback resumes after the fetchConfig of the 403 branch
submitAfterRetryRefresh(k) ==
    /\ k \in 1..Len(calls)
    /\ calls[k].pc \in {"sf_retry_own", "sf_retry_join"}
    /\ Settled(calls[k].req2)
    /\ LET c == calls[k].c
           w == calls[k].wid
       IN /\ IF net[calls[k].req2].st # "ok"
             THEN /\ calls' = [calls EXCEPT ![k].pc = "done",
                                            ![k].res = PromiseResult(calls[k].req2)]
                  /\ UNCHANGED net
             ELSE IF submissionToken[c] = 0
             THEN /\ calls' = [calls EXCEPT ![k].pc = "done",
                                            ![k].res = Err("403", calls[k].p1)]
                  /\ UNCHANGED net
             ELSE /\ CanIssue(1)
                  /\ net' = Append(net, NewReq("post", c, w, submissionToken[c]))
                  /\ calls' = [calls EXCEPT ![k].pc = "sf_retrypost", ![k].p2 = Len(net) + 1]
    /\ UNCHANGED <<session, now, ticks, apiVars, lastValid, ctlVars>>

\* the retried POST settles with resp
submitOnRetryResponse(k, resp) ==
    /\ k \in 1..Len(calls)
    /\ calls[k].pc = "sf_retrypost"
    /\ ~MicrotaskPending
    /\ net' = [net EXCEPT ![calls[k].p2].st = resp]
    /\ calls' = [calls EXCEPT ![k].pc = "done",
                              ![k].res = RetryPostResult(resp, calls[k].p1, calls[k].p2)]
    /\ UNCHANGED <<session, now, ticks, apiVars, lastValid, ctlVars>>

----------------------------------------------------------------------------
(* FeedValue controller.  Instance i owns ApiClient i. *)

\* the state object a FeedValue is constructed with
InitialState ==
    [isReady |-> FALSE, isOpen |-> FALSE, isVisible |-> TRUE,
     error |-> NoResult, isSubmitting |-> FALSE]

\* the state object destroy() assigns
DestroyedState ==
    [isReady |-> FALSE, isOpen |-> FALSE, isVisible |-> FALSE,
     error |-> NoResult, isSubmitting |-> FALSE]

\* new FeedValue(options).  The fields from snapshotRef on are not fields of
\* the object.  snapshotRef names the object stateSnapshot refers to: the n-th
\* snapshot object the instance allocated.  pending holds the submit() calls
\* suspended at their await, each with the payload it built.  destroyed records
\* that destroy() ran; userId, userData and userTraits are the private fields
\* identify(), setData() and reset() write.  The last five record the last operation: the events it
\* emitted, the arguments of those emitted with one, the handlers it invoked,
\* the subscribers it called, each with the snapshot in place at the call, and
\* what a submit() returned or threw.
NewInstance(w, opt) ==
    [widgetId |-> w, config |-> opt, widgetConfig |-> 0,
     state |-> InitialState, stateSnapshot |-> InitialState,
     stateSubscribers |-> <<>>, listeners |-> <<>>,
     snapshotRef |-> 1, pending |-> {},
     destroyed |-> FALSE, emitted |-> <<>>, args |-> <<>>, invoked |-> <<>>,
     logged |-> <<>>, notified |-> <<>>, returned |-> NoResult, waiters |-> <<>>,
     userId |-> NoUser, userData |-> NoData, userTraits |-> NoData,
     thrown |-> NoResult]

\* { ...a, ...b }
Spread(a, b) ==
    [k \in DOMAIN a \cup DOMAIN b |-> IF k \in DOMAIN b THEN b[k] ELSE a[k]]

Quiet(inst) ==
    [inst EXCEPT !.emitted = <<>>, !.args = <<>>, !.invoked = <<>>, !.logged = <<>>,
                 !.notified = <<>>, !.returned = NoResult, !.thrown = NoResult]

\* the instances at the start of an operation: the records of the previous one dropped
Quieted == [n \in 1..Len(insts) |-> Quiet(insts[n])]

\* Set.prototype.add and delete on a Set kept in insertion order
SetAdd(seq, x) == IF \E n \in 1..Len(seq) : seq[n] = x THEN seq ELSE Append(seq, x)

SetDelete(seq, x) == SelectSeq(seq, LAMBDA y : y # x)

Range(seq) == {seq[n] : n \in 1..Len(seq)}

\* the resolve and reject functions of the promises waitUntilReady() returns,
\* in the order of the calls
Resolvers == <<"resolve1", "resolve2", "resolve3">>

Rejecters == <<"reject1", "reject2", "reject3">>

\* the promise whose resolve or reject function h is
WaiterOf(h) ==
    CHOOSE n \in 1..Len(Resolvers) : Resolvers[n] = h \/ Rejecters[n] = h

\* What the handlers given to the emitter do when they are called for event
\* ev: return, throw, call off(ev, "h2"), call on(ev, "h2"), or emit ev again
\* (as long as fewer than MaxEmitDepth emissions are running).
Body(h) ==
    CASE h \in Range(Resolvers) -> "resolve"
      [] h \in Range(Rejecters) -> "reject"
      [] h = "hThrows" -> "throw"
      [] h = "hOffs2" -> "off"
      [] h = "hOns2" -> "on"
      [] h = "hEmits" -> "emit"
      [] OTHER -> "return"

\* the closures once(ev, h) creates: a new one on every call
OnceWrappers ==
    [h1 |-> <<"once1(h1)", "once2(h1)", "once3(h1)">>,
     h2 |-> <<"once1(h2)", "once2(h2)", "once3(h2)">>,
     hThrows |-> <<"once1(hThrows)", "once2(hThrows)", "once3(hThrows)">>,
     hEmits |-> <<"once1(hEmits)", "once2(hEmits)", "once3(hEmits)">>,
     resolve1 |-> <<"once(resolve1)">>, reject1 |-> <<"once(reject1)">>,
     resolve2 |-> <<"once(resolve2)">>, reject2 |-> <<"once(reject2)">>,
     resolve3 |-> <<"once(resolve3)">>, reject3 |-> <<"once(reject3)">>]

IsWrapper(h) ==
    \E f \in DOMAIN OnceWrappers : \E n \in 1..Len(OnceWrappers[f]) : OnceWrappers[f][n] = h

\* the handler a registered function ends up calling: itself, or the handler
\* its once() wrapper closes over
Callback(h) ==
    IF IsWrapper(h)
    THEN CHOOSE f \in DOMAIN OnceWrappers :
             \E n \in 1..Len(OnceWrappers[f]) : OnceWrappers[f][n] = h
    ELSE h

\* the Set this.listeners holds for ev, in insertion order (empty: no entry)
HandlerSet(listeners, ev) ==
    LET sel == SelectSeq(listeners, LAMBDA l : l[1] = ev)
    IN [n \in 1..Len(sel) |-> sel[n][2]]

\* An emitter while handlers run: listeners, the for...of loops of the emit
\* calls in progress (rem: the entries of the Set the loop has still to
\* visit; live: the Set is still the one the Map holds), and the records of
\* what was emitted, called and logged.
Running(inst) ==
    [listeners |-> inst.listeners, frames |-> <<>>, emitted |-> inst.emitted,
     invoked |-> inst.invoked, logged |-> inst.logged, waiters |-> inst.waiters,
     arg |-> NoResult]

\* off(ev, h) while loops run: the entry leaves the Set, so a loop over that
\* Set no longer reaches it; the Map entry is deleted with its last handler
RunOff(st, ev, h) ==
    LET L == SetDelete(st.listeners, <<ev, h>>)
        gone == HandlerSet(L, ev) = <<>>
    IN [st EXCEPT !.listeners = L,
                  !.frames = [n \in 1..Len(st.frames) |->
                                 IF st.frames[n].ev = ev /\ st.frames[n].live
                                 THEN [st.frames[n] EXCEPT !.rem = SetDelete(@, h),
                                                           !.live = ~gone]
                                 ELSE st.frames[n]]]

\* on(ev, h) while loops run: a new entry is appended to the Set, where a
\* loop over that Set will reach it
RunOn(st, ev, h) ==
    IF \E n \in 1..Len(st.listeners) : st.listeners[n] = <<ev, h>>
    THEN st
    ELSE [st EXCEPT !.listeners = Append(@, <<ev, h>>),
                    !.frames = [n \in 1..Len(st.frames) |->
                                   IF st.frames[n].ev = ev /\ st.frames[n].live
                                   THEN [st.frames[n] EXCEPT !.rem = Append(@, h)]
                                   ELSE st.frames[n]]]

\* emit(ev) up to its loop: the loop starts over the Set registered for ev
RunEmit(st, ev) ==
    LET a == [st EXCEPT !.emitted = Append(@, ev)]
        hs == HandlerSet(st.listeners, ev)
    IN IF hs = <<>> THEN a
       ELSE [a EXCEPT !.frames = Append(@, [ev |-> ev, rem |-> hs, live |-> TRUE])]

RECURSIVE RunLoops(_)

\* a once() wrapper that calls its handler first and off on itself afterwards
RunHandler_OffAfter(st, ev, h) ==
    LET b == [st EXCEPT !.invoked = Append(@, <<ev, h>>)]
        body == Body(Callback(h))
        c == CASE body = "throw" -> [b EXCEPT !.logged = Append(@, <<ev, h>>)]
               [] body = "off" -> RunOff(b, ev, "h2")
               [] body = "on" -> RunOn(b, ev, "h2")
               [] body = "emit" -> IF Len(b.frames) < MaxEmitDepth
                                   THEN RunLoops(RunEmit(b, ev)) ELSE b
               [] OTHER -> b
    IN IF IsWrapper(h) /\ body # "throw" THEN RunOff(c, ev, h) ELSE c

\* emit without its try block: a throw leaves every loop in progress
RunHandler_NoCatch(st, ev, h) ==
    LET a == IF IsWrapper(h) THEN RunOff(st, ev, h) ELSE st
        b == [a EXCEPT !.invoked = Append(@, <<ev, h>>)]
        body == Body(Callback(h))
    IN CASE body = "throw" -> [b EXCEPT !.frames = <<>>]
         [] body = "off" -> RunOff(b, ev, "h2")
         [] body = "on" -> RunOn(b, ev, "h2")
         [] body = "emit" -> IF Len(b.frames) < MaxEmitDepth THEN RunEmit(b, ev) ELSE b
         [] OTHER -> b

\* resolve() or reject(st.arg) of a promise: it settles if it is pending
Settle(st, n, how) ==
    IF st.waiters[n].st = "pending"
    THEN [st EXCEPT !.waiters[n] =
             [st |-> how, res |-> IF how = "rejected" THEN st.arg ELSE NoResult]]
    ELSE st

\* the call handler(...args) inside the try block of emit; a once() wrapper
\* calls off on itself before it calls its handler, and a throw is caught and
\* logged by emit
RunHandler(st, ev, h) ==
    LET a == IF IsWrapper(h) THEN RunOff(st, ev, h) ELSE st
        b == [a EXCEPT !.invoked = Append(@, <<ev, h>>)]
        body == Body(Callback(h))
    IN CASE body = "throw" -> [b EXCEPT !.logged = Append(@, <<ev, h>>)]
         [] body = "resolve" -> Settle(b, WaiterOf(Callback(h)), "resolved")
         [] body = "reject" -> Settle(b, WaiterOf(Callback(h)), "rejected")
         [] body = "off" -> RunOff(b, ev, "h2")
         [] body = "on" -> RunOn(b, ev, "h2")
         [] body = "emit" -> IF Len(b.frames) < MaxEmitDepth THEN RunEmit(b, ev) ELSE b
         [] OTHER -> b

\* the loops in progress run to their ends, innermost first
RunLoops(st) ==
    IF st.frames = <<>> THEN st
    ELSE LET top == st.frames[Len(st.frames)]
         IN IF top.rem = <<>>
            THEN RunLoops([st EXCEPT !.frames = SubSeq(@, 1, Len(@) - 1)])
            ELSE RunLoops(RunHandler(
                     [st EXCEPT !.frames[Len(st.frames)].rem = Tail(@)],
                     top.ev, Head(top.rem)))

\* the instance once the loops of an emission have run to the state r
Emitted(inst, r) ==
    [inst EXCEPT !.listeners = r.listeners, !.emitted = r.emitted,
                 !.invoked = r.invoked, !.logged = r.logged,
                 !.waiters = r.waiters]

\* TypedEventEmitter.emit(ev, arg): the loop over the handlers registered for ev
emitArg(inst, ev, arg) ==
    Emitted(inst, RunLoops(RunEmit([Running(inst) EXCEPT !.arg = arg], ev)))

\* emit(ev) of an event without argument
emit(inst, ev) == emitArg(inst, ev, NoResult)

\* emit(ev, arg): an emission whose argument is recorded
emitWith(inst, ev, arg) == [emitArg(inst, ev, arg) EXCEPT !.args = Append(@, <<ev, arg>>)]

\* the merge of this.state with partial
Merged(state, partial) ==
    [f \in DOMAIN state |-> IF f \in DOMAIN partial THEN partial[f] ELSE state[f]]

\* what a callback given to subscribe() does when it is called
Throws(cb) == cb = "cbThrows"

\* the exception such a callback throws
SubscriberError == Err("subscriber", 0)

\* the position of the first subscriber that throws (0: none does)
FirstThrower(subs) ==
    IF \E n \in 1..Len(subs) : Throws(subs[n])
    THEN CHOOSE n \in 1..Len(subs) :
            Throws(subs[n]) /\ \A m \in 1..(n - 1) : ~Throws(subs[m])
    ELSE 0

\* the subscribers called by updateState, each seeing the snapshot ref in
\* place: the loop ends with the first subscriber that throws
Notified(inst) ==
    LET subs == inst.stateSubscribers
        last == IF FirstThrower(subs) = 0 THEN Len(subs) ELSE FirstThrower(subs)
    IN [n \in 1..last |->
           [cb |-> subs[n], ref |-> inst.snapshotRef, snapshot |-> inst.stateSnapshot]]

\* an exception is on its way out of the handler: the rest of it is skipped
Propagates(inst) == inst.thrown # NoResult

\* this.emit(ev) as the statement that follows a call which may have thrown
ThenEmit(inst, ev) == IF Propagates(inst) THEN inst ELSE emit(inst, ev)

\* this.emit(ev, arg) as the statement that follows such a call
ThenEmitWith(inst, ev, arg) == IF Propagates(inst) THEN inst ELSE emitWith(inst, ev, arg)

\* updateState: this.state and this.stateSnapshot become the merged state st
Assigned(inst, st) ==
    [inst EXCEPT !.state = st, !.stateSnapshot = st, !.snapshotRef = @ + 1]

\* updateState: the loop over this.stateSubscribers, which has no try block
NotifySubscribers(inst) ==
    [inst EXCEPT !.notified = @ \o Notified(inst),
                 !.thrown = IF FirstThrower(inst.stateSubscribers) = 0
                            THEN @ ELSE SubscriberError]

\* updateState that writes the new state into the snapshot object in place
updateState_InPlace(inst, partial) ==
    LET st == Merged(inst.state, partial)
        a == [inst EXCEPT !.state = st, !.stateSnapshot = st]
        b == emit(a, "stateChange")
    IN [b EXCEPT !.notified = @ \o Notified(b)]

\* updateState that calls the subscribers before it replaces the snapshot
updateState_NotifyFirst(inst, partial) ==
    LET st == Merged(inst.state, partial)
        a == [inst EXCEPT !.state = st, !.notified = @ \o Notified(inst)]
        b == [a EXCEPT !.stateSnapshot = st, !.snapshotRef = @ + 1]
    IN emit(b, "stateChange")

\* private updateState(partial)
updateState(inst, partial) ==
    NotifySubscribers(emit(Assigned(inst, Merged(inst.state, partial)), "stateChange"))

getSnapshot(i) == insts[i].stateSnapshot

\* instances.get(widgetId) with every lookup missing
getInstance_Miss(w) == 0

getInstance(w) == instances[w]

\* what an init() call settles with: res, or the exception that left it
InitResult(inst, res) == IF inst.thrown # NoResult THEN inst.thrown ELSE res

\* init() whose catch block records the error without emitting it
InitFailed_Silent(inst, err) == updateState(inst, [error |-> err])

\* init(): the catch block
InitFailed(inst, err) == ThenEmitWith(updateState(inst, [error |-> err]), "error", err)

\* init(): the last statement of the try block, or the catch block when the
\* statement before it threw
InitTried(inst) ==
    IF inst.thrown = NoResult
    THEN emit(inst, "ready")
    ELSE InitFailed([inst EXCEPT !.thrown = NoResult], inst.thrown)

\* init(): the end of the try block; an exception thrown there is caught by
\* the catch block
InitSucceeded(inst, data) ==
    InitTried(updateState([inst EXCEPT !.widgetConfig = data],
                          [isReady |-> TRUE, error |-> NoResult]))

\* instance method init(), from the call to the await of generateFingerprint();
\* fpOk: generateFingerprint() returned (it throws without a secure random source)
InitCall(i, fpOk) ==
    IF insts[i].state.isReady
    THEN [NewCall("init", i, insts[i].widgetId) EXCEPT !.res = Ok("init", 0)]
    ELSE IF ~fpOk
    THEN [NewCall("init", i, insts[i].widgetId) EXCEPT
             !.res = IF FirstThrower(insts[i].stateSubscribers) = 0
                     THEN Err("nocrypto", 0) ELSE SubscriberError]
    ELSE [NewCall("init", i, insts[i].widgetId) EXCEPT !.pc = "in_fp"]

InitCallInstance(inst, fpOk) ==
    IF inst.state.isReady \/ fpOk
    THEN Quiet(inst)
    ELSE InitFailed(Quiet(inst), Err("nocrypto", 0))

\* static FeedValue.init(options)
StaticInit(w, opt, fpOk) ==
    /\ IF getInstance(w) # 0
       THEN /\ lastInit' = [wid |-> w, opt |-> opt, inst |-> getInstance(w)]
            /\ UNCHANGED <<instances, insts, calls>>
       ELSE /\ Len(insts) < MaxInst
            /\ Len(calls) < MaxCalls
            /\ LET i == Len(insts) + 1
                   all == Append(Quieted, NewInstance(w, opt))
               IN /\ instances' = [instances EXCEPT ![w] = i]
                  /\ insts' = [all EXCEPT ![i] = InitCallInstance(all[i], fpOk)]
                  /\ calls' = Append(calls, [NewCall("init", i, w) EXCEPT
                                  !.pc = IF fpOk THEN "in_fp" ELSE "done",
                                  !.res = IF fpOk THEN NoResult ELSE Err("nocrypto", 0)])
                  /\ lastInit' = [wid |-> w, opt |-> opt, inst |-> i]
    /\ UNCHANGED <<session, now, ticks, apiVars, net, lastValid>>

\* instance method init() called again on an existing object
init(i, fpOk) ==
    /\ i \in 1..Len(insts)
    /\ Len(calls) < MaxCalls
    /\ calls' = Append(calls, InitCall(i, fpOk))
    /\ insts' = [Quieted EXCEPT ![i] = InitCallInstance(@, fpOk)]
    /\ UNCHANGED <<session, now, ticks, apiVars, net, lastValid, instances, lastInit>>

\* init() resumes after the fingerprint: setFingerprint, then fetchConfig up to
\* its first suspension point; a cache hit or a rejected id resumes init() at once
InitAfterFingerprint(k, fp) ==
    /\ k \in 1..Len(calls)
    /\ calls[k].pc = "in_fp"
    /\ LET i == calls[k].c
           w == calls[k].wid
           kind == FetchKind(i, w)
       IN /\ fingerprint' = [fingerprint EXCEPT ![i] = fp]
          /\ IF validateWidgetId(w) # "ok"
             THEN /\ insts' = [Quieted EXCEPT ![i] =
                                  InitFailed(@, Err(validateWidgetId(w), 0))]
                  /\ calls' = [calls EXCEPT ![k].pc = "done",
                                            ![k].res = InitResult(insts'[i],
                                                          Err(validateWidgetId(w), 0))]
                  /\ UNCHANGED <<net, pendingRequests>>
             ELSE IF kind = "cache"
             THEN /\ insts' = [Quieted EXCEPT ![i] =
                                  InitSucceeded(@, configCache[i][w].data)]
                  /\ calls' = [calls EXCEPT ![k].pc = "done", ![k].ref1 = "cache",
                                            ![k].res = InitResult(insts'[i], Ok("init", 0))]
                  /\ UNCHANGED <<net, pendingRequests>>
             ELSE /\ kind = "net" => CanIssue(1)
                  /\ net' = IF kind = "net"
                            THEN Append(net, [NewReq("config", i, w, 0) EXCEPT !.fp = fp])
                            ELSE net
                  /\ pendingRequests' = PendingAfterFetch(i, w)
                  /\ calls' = [calls EXCEPT ![k].ref1 = kind, ![k].req1 = FetchReq(i, w),
                                  ![k].pc = IF kind = "join" THEN "in_join" ELSE "in_own"]
                  /\ UNCHANGED insts
    /\ UNCHANGED <<session, now, ticks, configCache, submissionToken, tokenExpiresAt,
                   lastValid, instances, lastInit>>

\* init() resumes after the fetchConfig it awaited
InitAfterFetch(k) ==
    /\ k \in 1..Len(calls)
    /\ calls[k].pc \in {"in_own", "in_join"}
    /\ Settled(calls[k].req1)
    /\ LET i == calls[k].c
           r == calls[k].req1
       IN IF net[r].st = "ok"
          THEN /\ insts' = [Quieted EXCEPT ![i] = InitSucceeded(@, r)]
               /\ calls' = [calls EXCEPT ![k].pc = "done",
                                         ![k].res = InitResult(insts'[i], Ok("init", 0))]
          ELSE /\ insts' = [Quieted EXCEPT ![i] = InitFailed(@, PromiseResult(r))]
               /\ calls' = [calls EXCEPT ![k].pc = "done",
                                         ![k].res = InitResult(insts'[i], PromiseResult(r))]
    /\ UNCHANGED <<session, now, ticks, apiVars, net, lastValid, instances, lastInit>>

\* instances.delete(this.widgetId)
Unregistered(w) == [instances EXCEPT ![w] = 0]

destroy(i) ==
    /\ i \in 1..Len(insts)
    /\ insts' = [Quieted EXCEPT ![i] =
                    [@ EXCEPT !.widgetConfig = 0,
                                     !.stateSubscribers = <<>>,
                                     !.listeners = <<>>,
                                     !.state = DestroyedState,
                                     !.destroyed = TRUE]]
    /\ configCache' = CacheCleared(i)
    /\ submissionToken' = TokenCleared(i)
    /\ tokenExpiresAt' = ExpiryCleared(i)
    /\ instances' = Unregistered(insts[i].widgetId)
    /\ calls' = [k \in 1..Len(calls) |->
                    IF calls[k].op = "init" /\ calls[k].c = i /\ calls[k].pc # "done"
                    THEN [calls[k] EXCEPT !.orphan = TRUE]
                    ELSE calls[k]]
    /\ UNCHANGED <<session, now, ticks, pendingRequests, fingerprint, net, lastValid, lastInit>>

\* open() without its ready check
Opened_NoReadyCheck(inst) == emit(updateState(inst, [isOpen |-> TRUE]), "open")

\* open() of an instance record
Opened(inst) ==
    IF ~inst.state.isReady THEN inst
    ELSE ThenEmit(updateState(inst, [isOpen |-> TRUE]), "open")

Closed(inst) == ThenEmit(updateState(inst, [isOpen |-> FALSE]), "close")

open(i) ==
    /\ i \in 1..Len(insts)
    /\ insts' = [Quieted EXCEPT ![i] = Opened(@)]
    /\ UNCHANGED <<session, now, ticks, apiVars, net, calls, lastValid, instances, lastInit>>

close(i) ==
    /\ i \in 1..Len(insts)
    /\ insts' = [Quieted EXCEPT ![i] = Closed(@)]
    /\ UNCHANGED <<session, now, ticks, apiVars, net, calls, lastValid, instances, lastInit>>

toggle(i) ==
    /\ i \in 1..Len(insts)
    /\ insts' = [Quieted EXCEPT ![i] =
                    IF @.state.isOpen THEN Closed(@) ELSE Opened(@)]
    /\ UNCHANGED <<session, now, ticks, apiVars, net, calls, lastValid, instances, lastInit>>

show(i) ==
    /\ i \in 1..Len(insts)
    /\ insts' = [Quieted EXCEPT ![i] = updateState(@, [isVisible |-> TRUE])]
    /\ UNCHANGED <<session, now, ticks, apiVars, net, calls, lastValid, instances, lastInit>>

hide(i) ==
    /\ i \in 1..Len(insts)
    /\ insts' = [Quieted EXCEPT ![i] = updateState(@, [isVisible |-> FALSE])]
    /\ UNCHANGED <<session, now, ticks, apiVars, net, calls, lastValid, instances, lastInit>>

\* Set.add / Set.delete on an insertion-ordered set
subscribe(i, cb) ==
    /\ i \in 1..Len(insts)
    /\ insts' = [Quieted EXCEPT ![i].stateSubscribers = SetAdd(@, cb)]
    /\ UNCHANGED <<session, now, ticks, apiVars, net, calls, lastValid, instances, lastInit>>

\* the function returned by subscribe(cb)
unsubscribe(i, cb) ==
    /\ i \in 1..Len(insts)
    /\ insts' = [Quieted EXCEPT ![i].stateSubscribers = SetDelete(@, cb)]
    /\ UNCHANGED <<session, now, ticks, apiVars, net, calls, lastValid, instances, lastInit>>

on(i, ev, h) ==
    /\ i \in 1..Len(insts)
    /\ insts' = [Quieted EXCEPT ![i].listeners = SetAdd(@, <<ev, h>>)]
    /\ UNCHANGED <<session, now, ticks, apiVars, net, calls, lastValid, instances, lastInit>>

off(i, ev, h) ==
    /\ i \in 1..Len(insts)
    /\ insts' = [Quieted EXCEPT ![i].listeners = SetDelete(@, <<ev, h>>)]
    /\ UNCHANGED <<session, now, ticks, apiVars, net, calls, lastValid, instances, lastInit>>

\* the closure a call of once(ev, h) creates: one that is not registered yet
Wrapper(listeners, ev, h) ==
    LET free == {n \in 1..Len(OnceWrappers[h]) :
                    \A m \in 1..Len(listeners) : listeners[m] # <<ev, OnceWrappers[h][n]>>}
    IN OnceWrappers[h][CHOOSE n \in free : \A m \in free : n <= m]

\* TypedEventEmitter.once: a wrapper is created and registered with on
emitterOnce(listeners, ev, h) == SetAdd(listeners, <<ev, Wrapper(listeners, ev, h)>>)

\* FeedValue.once(ev, h), which hands the call to the emitter as on and off do
once(i, ev, h) ==
    /\ i \in 1..Len(insts)
    /\ h \in DOMAIN OnceWrappers
    /\ \E n \in 1..Len(OnceWrappers[h]) :
          \A m \in 1..Len(insts[i].listeners) :
              insts[i].listeners[m] # <<ev, OnceWrappers[h][n]>>
    /\ insts' = [Quieted EXCEPT ![i].listeners = emitterOnce(@, ev, h)]
    /\ UNCHANGED <<session, now, ticks, apiVars, net, calls, lastValid, instances, lastInit>>

\* FeedValue.waitUntilReady(): resolved at once when ready, rejected at once
\* with the recorded error, otherwise a promise that the first 'ready' resolves
\* and the first 'error' rejects
waitUntilReady(i) ==
    /\ i \in 1..Len(insts)
    /\ Len(insts[i].waiters) < MaxWaiters
    /\ LET n == Len(insts[i].waiters) + 1
           st == insts[i].state
       IN insts' = [Quieted EXCEPT ![i] =
             IF st.isReady
             THEN [@ EXCEPT !.waiters = Append(@, [st |-> "resolved", res |-> NoResult])]
             ELSE IF st.error # NoResult
             THEN [@ EXCEPT !.waiters = Append(@, [st |-> "rejected", res |-> st.error])]
             ELSE [@ EXCEPT !.waiters = Append(@, [st |-> "pending", res |-> NoResult]),
                            !.listeners = emitterOnce(emitterOnce(@, "ready", Resolvers[n]),
                                                      "error", Rejecters[n])]]
    /\ UNCHANGED <<session, now, ticks, apiVars, net, calls, lastValid, instances, lastInit>>

\* emitter.emit(ev) called on the emitter of instance i
emitCall(i, ev) ==
    /\ i \in 1..Len(insts)
    /\ insts' = [Quieted EXCEPT ![i] = emit(@, ev)]
    /\ UNCHANGED <<session, now, ticks, apiVars, net, calls, lastValid, instances, lastInit>>

----------------------------------------------------------------------------
(* FeedValue.submit *)

Whitespace == {" "}

\* String.prototype.trim on ch.repeat(n)
trim(str) == IF str.ch \in Whitespace THEN Repeat(str.ch, 0) ELSE str

\* the message check of submit() without trim()
MessageMissing_NoTrim(fb) == fb.message.n = 0

\* !feedback.message?.trim()
MessageMissing(fb) == trim(fb.message).n = 0

\* the payload submit() builds
\* setData(data)
setData(i, data) ==
    /\ i \in 1..Len(insts)
    /\ insts' = [Quieted EXCEPT ![i].userData = Spread(@, data)]
    /\ UNCHANGED <<session, now, ticks, apiVars, net, calls, lastValid, instances, lastInit>>

\* identify(userId, traits); traits = NoData stands for a call without traits
identify(i, id, traits) ==
    /\ i \in 1..Len(insts)
    /\ insts' = [Quieted EXCEPT ![i].userId = id,
                                ![i].userTraits = Spread(@, traits)]
    /\ UNCHANGED <<session, now, ticks, apiVars, net, calls, lastValid, instances, lastInit>>

\* reset()
reset(i) ==
    /\ i \in 1..Len(insts)
    /\ insts' = [Quieted EXCEPT ![i].userData = NoData, ![i].userId = NoUser,
                                ![i].userTraits = NoData]
    /\ UNCHANGED <<session, now, ticks, apiVars, net, calls, lastValid, instances, lastInit>>

\* the object submit() builds and hands to apiClient.submitFeedback
FullFeedback(fb) ==
    [message |-> fb.message, sentiment |-> fb.sentiment,
     metadata |-> [page_url |-> "href", custom_field |-> fb.metadata]]

\* submit() without its ready check
RejectedNotReady_Never(inst) == FALSE

\* the check submit() makes before it looks at the feedback
RejectedNotReady(inst) == ~inst.state.isReady

\* submit(feedback), from the call to the await of apiClient.submitFeedback
submit(i, fb) ==
    /\ i \in 1..Len(insts)
    /\ IF RejectedNotReady(insts[i])
       THEN /\ insts' = [Quieted EXCEPT ![i].returned = Err("notready", 0)]
            /\ UNCHANGED <<calls, net, pendingRequests>>
       ELSE IF MessageMissing(fb)
       THEN /\ insts' = [Quieted EXCEPT ![i].returned = Err("required", 0)]
            /\ UNCHANGED <<calls, net, pendingRequests>>
       ELSE IF FirstThrower(insts[i].stateSubscribers) # 0
       THEN /\ insts' = [Quieted EXCEPT ![i] =
                  [updateState(@, [isSubmitting |-> TRUE]) EXCEPT
                      !.returned = SubscriberError]]
            /\ UNCHANGED <<calls, net, pendingRequests>>
       ELSE /\ submitFeedbackStart(i, insts[i].widgetId)
            /\ insts' = [Quieted EXCEPT ![i] =
                  [updateState(@, [isSubmitting |-> TRUE]) EXCEPT
                      !.pending = @ \cup {[call |-> Len(calls) + 1,
                                           payload |-> FullFeedback(fb)]}]]
    /\ UNCHANGED <<session, now, ticks, configCache, submissionToken, tokenExpiresAt,
                   fingerprint, lastValid, instances, lastInit>>

\* submit() leaves: the promise settles with the exception of the finally
\* block if there is one, else with the outcome of the try block
SubmitReturned(inst, p, res) ==
    [inst EXCEPT !.pending = @ \ {p},
                 !.returned = IF inst.thrown # NoResult THEN inst.thrown
                              ELSE IF res.st = "ok" THEN Ok("submit", p.call) ELSE res]

\* submit() whose catch block rethrows without emitting 'error'
SubmitOutcome_Silent(inst, p, res) ==
    LET a == IF res.st = "ok" THEN emitWith(inst, "submit", p.payload) ELSE inst
        b == updateState(a, [isSubmitting |-> FALSE])
    IN [b EXCEPT !.pending = @ \ {p},
                 !.returned = IF res.st = "ok" THEN Ok("submit", p.call) ELSE res]

\* submit() whose submitting flag is cleared at the end of the try block only
SubmitOutcome_NoFinally(inst, p, res) ==
    LET a == IF res.st = "ok"
             THEN updateState(emitWith(inst, "submit", p.payload), [isSubmitting |-> FALSE])
             ELSE emitWith(inst, "error", res)
    IN [a EXCEPT !.pending = @ \ {p},
                 !.returned = IF res.st = "ok" THEN Ok("submit", p.call) ELSE res]

\* submit() after the awaited submitFeedback settled with res: the try block
\* ends or the catch block runs, then the finally block
SubmitOutcome(inst, p, res) ==
    SubmitReturned(updateState(IF res.st = "ok"
                               THEN emitWith(inst, "submit", p.payload)
                               ELSE emitWith(inst, "error", res),
                               [isSubmitting |-> FALSE]), p, res)

\* submit() resumes when the submitFeedback call k it awaits has settled
SubmitSettled(k) ==
    /\ k \in 1..Len(calls)
    /\ calls[k].pc = "done"
    /\ \E i \in 1..Len(insts) : \E p \in insts[i].pending :
          /\ p.call = k
          /\ insts' = [Quieted EXCEPT ![i] = SubmitOutcome(@, p, calls[k].res)]
    /\ UNCHANGED <<session, now, ticks, apiVars, net, calls, lastValid, instances, lastInit>>

Tick(d) ==
    /\ ticks < MaxTicks
    /\ ~MicrotaskPending
    /\ now' = now + d
    /\ ticks' = ticks + 1
    /\ UNCHANGED <<session, apiVars, net, calls, lastValid, ctlVars>>

----------------------------------------------------------------------------
(* Fingerprint provider: generateFingerprint and clearFingerprint over the   *)
(* sessionStorage item 'fv_fingerprint'.  A fingerprint value is the number  *)
(* of the random draw it came from and whether it is written with dashes.    *)

\* sessionStorage.getItem returns null
NoItem == [id |-> 0, dashes |-> FALSE]

\* env: where the code runs ("": not started, "browser", "ssr": no window or
\* no sessionStorage); item: the stored fingerprint; draws: the random values
\* drawn so far; ops: the calls made, each with what it returned (NoItem for
\* clearFingerprint) and whether the storage accepted its write
NoSession == [env |-> "", item |-> NoItem, draws |-> 0, ops |-> <<>>]

\* generateHexFingerprint(): 16 fresh random bytes as 32 hex digits
generateHexFingerprint(n) == [id |-> n, dashes |-> FALSE]

\* a fingerprint in the UUID format of the earlier releases
LegacyUuid == [id |-> 100, dashes |-> TRUE]

\* stored.replace(/-/g, '')
WithoutDashes(v) == [v EXCEPT !.dashes = FALSE]

\* setItem that never stores
setItem_Never(item, v, ok) == item

\* sessionStorage.setItem inside try/catch: a throw is ignored
setItem(item, v, ok) == IF ok THEN v ELSE item

\* sessionStorage.removeItem inside try/catch: a throw is ignored
removeItem(item, ok) == IF ok THEN NoItem ELSE item

\* the session begins: in a browser tab, possibly with a fingerprint an
\* earlier release left in sessionStorage, or in an environment without one
openSession(env, item) ==
    /\ session = NoSession
    /\ env = "ssr" => item = NoItem
    /\ session' = [session EXCEPT !.env = env, !.item = item]
    /\ UNCHANGED <<now, ticks, apiVars, net, calls, lastValid, ctlVars>>

generateFingerprint(ok) ==
    /\ session.env # ""
    /\ Len(session.ops) < MaxFingerprintCalls
    /\ LET fresh == generateHexFingerprint(session.draws + 1)
           stored == session.item
           Op(v) == [op |-> "generate", value |-> v, ok |-> ok]
       IN IF session.env = "ssr"
          THEN session' = [session EXCEPT !.draws = @ + 1, !.ops = Append(@, Op(fresh))]
          ELSE IF stored # NoItem
          THEN IF stored.dashes
               THEN session' = [session EXCEPT
                                   !.item = setItem(@, WithoutDashes(stored), ok),
                                   !.ops = Append(@, Op(WithoutDashes(stored)))]
               ELSE session' = [session EXCEPT !.ops = Append(@, Op(stored))]
          ELSE session' = [session EXCEPT !.draws = @ + 1,
                                          !.item = setItem(@, fresh, ok),
                                          !.ops = Append(@, Op(fresh))]
    /\ UNCHANGED <<now, ticks, apiVars, net, calls, lastValid, ctlVars>>

clearFingerprint(ok) ==
    /\ session.env # ""
    /\ Len(session.ops) < MaxFingerprintCalls
    /\ session' = [session EXCEPT
                      !.item = IF session.env = "ssr" THEN @ ELSE removeItem(@, ok),
                      !.ops = Append(@, [op |-> "clear", value |-> NoItem, ok |-> ok])]
    /\ UNCHANGED <<now, ticks, apiVars, net, calls, lastValid, ctlVars>>

----------------------------------------------------------------------------

Init ==
    /\ now = 0
    /\ ticks = 0
    /\ configCache = [c \in Clients |-> [w \in GoodIds |-> NoEntry]]
    /\ pendingRequests = [c \in Clients |-> [w \in GoodIds |-> 0]]
    /\ submissionToken = [c \in Clients |-> 0]
    /\ tokenExpiresAt = [c \in Clients |-> 0]
    /\ fingerprint = [c \in Clients |-> ""]
    /\ net = <<>>
    /\ calls = <<>>
    /\ lastValid = [c |-> 0, value |-> FALSE, at |-> 0, token |-> 0, exp |-> 0]
    /\ instances = [w \in AllIds |-> 0]
    /\ insts = <<>>
    /\ lastInit = [wid |-> <<>>, opt |-> "", inst |-> 0]
    /\ session = NoSession

----------------------------------------------------------------------------
(* One ApiClient (client 1) driven directly by its callers *)

ApiIds == {W1, WBad}

NextApi ==
    \/ hasValidTokenCall(1)
    \/ clearCache(1)
    \/ \E w \in ApiIds : fetchConfig(1, w)
    \/ \E r \in 1..MaxReqs, ok \in BOOLEAN, hasToken \in BOOLEAN, toff \in TokenOffsets :
          doFetchConfigReturn(r, ok, hasToken, toff)
    \/ \E d \in Deltas : Tick(d)

SpecApi == Init /\ [][NextApi]_vars

NextSubmit ==
    \/ clearCache(1)
    \/ \E w \in ApiIds : Len(calls) < MaxSubmitCalls /\ fetchConfig(1, w)
    \/ \E r \in 1..MaxReqs, ok \in BOOLEAN, hasToken \in BOOLEAN, toff \in TokenOffsets :
          doFetchConfigReturn(r, ok, hasToken, toff)
    \/ \E w \in ApiIds : Len(calls) < MaxSubmitCalls /\ submitFeedback(1, w)
    \/ \E k \in 1..MaxCalls : submitAfterRefresh(k)
    \/ \E k \in 1..MaxCalls, resp \in PostResponses : submitOnResponse(k, resp)
    \/ \E k \in 1..MaxCalls : submitAfterRetryRefresh(k)
    \/ \E k \in 1..MaxCalls, resp \in PostResponses : submitOnRetryResponse(k, resp)
    \/ \E d \in Deltas : ticks < MaxSubmitTicks /\ Tick(d)

SpecSubmit == Init /\ [][NextSubmit]_vars

\* One client whose only callers are submitFeedback calls, running
\* concurrently, while the cache may be cleared and time passes.
NextPost ==
    \/ clearCache(1)
    \/ \E w \in ApiIds : Len(calls) < MaxSubmitCalls /\ submitFeedback(1, w)
    \/ \E r \in 1..MaxReqs, ok \in BOOLEAN, hasToken \in BOOLEAN :
          doFetchConfigReturn(r, ok, hasToken, 31)
    \/ \E k \in 1..MaxCalls : submitAfterRefresh(k)
    \/ \E k \in 1..MaxCalls, resp \in PostResponses : submitOnResponse(k, resp)
    \/ \E k \in 1..MaxCalls : submitAfterRetryRefresh(k)
    \/ \E k \in 1..MaxCalls, resp \in PostResponses : submitOnRetryResponse(k, resp)
    \/ \E d \in Deltas : ticks < MaxSubmitTicks /\ Tick(d)

SpecPost == Init /\ [][NextPost]_vars

\* One client that fetches its config once and is then given feedback by
\* concurrent submitFeedback calls.
NextConcurrent ==
    \/ calls = <<>> /\ fetchConfig(1, W1)
    \/ \E r \in 1..MaxReqs, ok \in BOOLEAN : doFetchConfigReturn(r, ok, TRUE, 31)
    \/ Len(calls) \in 1..MaxSubmitCalls /\ submitFeedback(1, W1)
    \/ \E k \in 1..MaxCalls : submitAfterRefresh(k)
    \/ \E k \in 1..MaxCalls, resp \in PostResponses : submitOnResponse(k, resp)
    \/ \E d \in Deltas : ticks < MaxSubmitTicks /\ Tick(d)

SpecConcurrent == Init /\ [][NextConcurrent]_vars

\* identifiers the client is called with: valid ones, the empty one, ones
\* with a character outside the allow-list, and one of 65 characters
WEmpty == <<>>

WDots == <<".", ".">>

WLong == [n \in 1..(MaxWidgetIdLength + 1) |-> "w"]

IdInputs == {W1, WBad, WEmpty, WDots, WLong}

\* One client called with every kind of identifier.
NextIds ==
    \/ clearCache(1)
    \/ \E w \in IdInputs : Len(calls) < MaxSubmitCalls /\ fetchConfig(1, w)
    \/ \E w \in IdInputs : Len(calls) < MaxSubmitCalls /\ submitFeedback(1, w)
    \/ \E r \in 1..MaxReqs, ok \in BOOLEAN : doFetchConfigReturn(r, ok, TRUE, 31)
    \/ \E k \in 1..MaxCalls : submitAfterRefresh(k)
    \/ \E k \in 1..MaxCalls, resp \in {"ok", "500"} : submitOnResponse(k, resp)

SpecIds == Init /\ [][NextIds]_vars

----------------------------------------------------------------------------
(* The controller with its registry: instances are created by the static     *)
(* init and driven through their public methods.                            *)

CtlIds == {W1, WBad}

\* callbacks and handlers registered over all instances
Registrations ==
    LET RECURSIVE Sum(_)
        Sum(n) == IF n = 0 THEN 0
                  ELSE Len(insts[n].stateSubscribers) + Len(insts[n].listeners) + Sum(n - 1)
    IN Sum(Len(insts))

CtlOptions == {"light"}

NextCtl ==
    \/ \E w \in CtlIds, opt \in CtlOptions, fpOk \in BOOLEAN : StaticInit(w, opt, fpOk)
    \/ \E i \in 1..MaxInst, fpOk \in BOOLEAN : init(i, fpOk)
    \/ \E k \in 1..MaxCalls, fp \in Fingerprints : InitAfterFingerprint(k, fp)
    \/ \E r \in 1..MaxReqs, ok \in BOOLEAN : doFetchConfigReturn(r, ok, TRUE, 31)
    \/ \E k \in 1..MaxCalls : InitAfterFetch(k)
    \/ \E i \in 1..MaxInst : destroy(i)
    \/ \E i \in 1..MaxInst : i <= Len(insts) /\ ~insts[i].state.isOpen /\ open(i)
    \/ \E i \in 1..MaxInst, cb \in Callbacks :
          Registrations < MaxRegs /\ subscribe(i, cb)

SpecCtl == Init /\ [][NextCtl]_vars

----------------------------------------------------------------------------
(* The registry alone: static init with either set of options, the           *)
(* initialization it starts, and destroy.                                   *)

NextRegistry ==
    \/ \E w \in CtlIds, opt \in Options, fpOk \in BOOLEAN :
          (getInstance(w) # 0 \/ Len(insts) < MaxInits) /\ StaticInit(w, opt, fpOk)
    \/ \E k \in 1..MaxCalls, fp \in Fingerprints : InitAfterFingerprint(k, fp)
    \/ \E r \in 1..MaxReqs, ok \in BOOLEAN : doFetchConfigReturn(r, ok, TRUE, 31)
    \/ \E k \in 1..MaxCalls : InitAfterFetch(k)
    \/ \E i \in 1..MaxInst : destroy(i)

SpecRegistry == Init /\ [][NextRegistry]_vars

----------------------------------------------------------------------------
(* Feedback through the controller: an instance is initialized, feedback is  *)
(* submitted on it, and the client under it talks to the network.           *)

\* the feedback submitted: a message, no message, a message of blanks
FeedbackInputs ==
    {fb \in Feedbacks : fb.message.n <= 3 /\ fb.sentiment = "none" /\ fb.metadata.n = 0}

\* the answers to a POST: accepted, a server error, a rejected token
PostOutcomes == {"ok", "500", "403token"}

NextFeedback ==
    \/ \E opt \in CtlOptions :
          Len(insts) < MaxWidgets /\ StaticInit(W1, opt, TRUE)
    \/ \E k \in 1..MaxCalls, fp \in Fingerprints : InitAfterFingerprint(k, fp)
    \/ \E r \in 1..MaxReqs, ok \in BOOLEAN, hasToken \in BOOLEAN :
          doFetchConfigReturn(r, ok, hasToken, 31)
    \/ \E k \in 1..MaxCalls : InitAfterFetch(k)
    \/ \E i \in 1..MaxInst, fb \in FeedbackInputs :
          Len(calls) <= MaxFeedbackCalls /\ submit(i, fb)
    \/ \E k \in 1..MaxCalls : submitAfterRefresh(k)
    \/ \E k \in 1..MaxCalls, resp \in PostOutcomes : submitOnResponse(k, resp)
    \/ \E k \in 1..MaxCalls : submitAfterRetryRefresh(k)
    \/ \E k \in 1..MaxCalls, resp \in PostOutcomes : submitOnRetryResponse(k, resp)
    \/ \E k \in 1..MaxCalls : SubmitSettled(k)
    \/ \E i \in 1..MaxInst : destroy(i)

SpecFeedback == Init /\ [][NextFeedback]_vars

----------------------------------------------------------------------------
(* One widget, created once, and what its user does with it: open, close,    *)
(* toggle, show, hide, subscribe and unsubscribe, on and off, submit,       *)
(* destroy.                                                                 *)

WidgetCallbacks == {"cb1", "cb2"}

\* instance i exists and has allocated fewer than MaxSnapshots snapshots
MaySnapshot(i) == i <= Len(insts) /\ insts[i].snapshotRef < MaxSnapshots

\* instance i exists and has fewer than MaxListeners callbacks and handlers
MayRegister(i) ==
    /\ i <= Len(insts)
    /\ Len(insts[i].stateSubscribers) + Len(insts[i].listeners) < MaxListeners

NextWidget ==
    \/ \E opt \in CtlOptions : insts = <<>> /\ StaticInit(W1, opt, TRUE)
    \/ \E k \in 1..MaxCalls, fp \in Fingerprints : InitAfterFingerprint(k, fp)
    \/ \E r \in 1..MaxReqs, ok \in BOOLEAN : doFetchConfigReturn(r, ok, TRUE, 31)
    \/ \E k \in 1..MaxCalls : InitAfterFetch(k)
    \/ \E i \in 1..MaxInst : MaySnapshot(i) /\ open(i)
    \/ \E i \in 1..MaxInst : MaySnapshot(i) /\ close(i)
    \/ \E i \in 1..MaxInst : MaySnapshot(i) /\ toggle(i)
    \/ \E i \in 1..MaxInst : MaySnapshot(i) /\ show(i)
    \/ \E i \in 1..MaxInst : MaySnapshot(i) /\ hide(i)
    \/ \E i \in 1..MaxInst, cb \in WidgetCallbacks : MayRegister(i) /\ subscribe(i, cb)
    \/ \E i \in 1..MaxInst, cb \in WidgetCallbacks : unsubscribe(i, cb)
    \/ \E i \in 1..MaxInst, ev \in Events, h \in Handlers :
          MayRegister(i) /\ on(i, ev, h)
    \/ \E i \in 1..MaxInst, ev \in Events, h \in Handlers : off(i, ev, h)
    \/ \E i \in 1..MaxInst, fb \in FeedbackInputs :
          MaySnapshot(i) /\ Len(calls) <= MaxFeedbackCalls /\ submit(i, fb)
    \/ \E k \in 1..MaxCalls, resp \in {"ok", "500"} : submitOnResponse(k, resp)
    \/ \E k \in 1..MaxCalls : SubmitSettled(k)
    \/ \E i \in 1..MaxInst : destroy(i)

SpecWidget == Init /\ [][NextWidget]_vars

----------------------------------------------------------------------------
(* One widget whose initialization may fail, while time passes and its user  *)
(* calls init() again, submits or destroys it.                              *)

NextRecovery ==
    \/ \E opt \in CtlOptions : insts = <<>> /\ StaticInit(W1, opt, TRUE)
    \/ \E i \in 1..MaxInst : init(i, TRUE)
    \/ \E k \in 1..MaxCalls, fp \in Fingerprints : InitAfterFingerprint(k, fp)
    \/ \E r \in 1..MaxReqs, ok \in BOOLEAN : doFetchConfigReturn(r, ok, TRUE, 31)
    \/ \E k \in 1..MaxCalls : InitAfterFetch(k)
    \/ \E i \in 1..MaxInst, fb \in FeedbackInputs :
          Len(calls) <= MaxFeedbackCalls /\ submit(i, fb)
    \/ \E k \in 1..MaxCalls, resp \in {"ok", "500"} : submitOnResponse(k, resp)
    \/ \E k \in 1..MaxCalls : SubmitSettled(k)
    \/ \E i \in 1..MaxInst : destroy(i)
    \/ \E d \in Deltas : Tick(d)

SpecRecovery == Init /\ [][NextRecovery]_vars

----------------------------------------------------------------------------
(* One widget that is given every kind of feedback. *)

NextValidation ==
    \/ \E opt \in CtlOptions : insts = <<>> /\ StaticInit(W1, opt, TRUE)
    \/ \E k \in 1..MaxCalls, fp \in Fingerprints : InitAfterFingerprint(k, fp)
    \/ \E r \in 1..MaxReqs, ok \in BOOLEAN : doFetchConfigReturn(r, ok, TRUE, 31)
    \/ \E k \in 1..MaxCalls : InitAfterFetch(k)
    \/ \E i \in 1..MaxInst, fb \in Feedbacks :
          Len(calls) <= MaxFeedbackCalls /\ submit(i, fb)
    \/ \E k \in 1..MaxCalls, resp \in {"ok", "500"} : submitOnResponse(k, resp)
    \/ \E k \in 1..MaxCalls : SubmitSettled(k)

SpecValidation == Init /\ [][NextValidation]_vars

----------------------------------------------------------------------------
(* One widget whose emitter is given handlers that throw, register and       *)
(* deregister handlers, and emit again.                                      *)

EmitterHandlers == {"h1", "h2", "hThrows", "hOffs2", "hOns2", "hEmits"}

EmitterEvents == {"open"}

NextEmitter ==
    \/ \E opt \in CtlOptions : insts = <<>> /\ StaticInit(W1, opt, TRUE)
    \/ \E k \in 1..MaxCalls, fp \in Fingerprints : InitAfterFingerprint(k, fp)
    \/ \E r \in 1..MaxReqs : doFetchConfigReturn(r, TRUE, TRUE, 31)
    \/ \E k \in 1..MaxCalls : InitAfterFetch(k)
    \/ \E i \in 1..MaxInst : MaySnapshot(i) /\ open(i)
    \/ \E i \in 1..MaxInst : MaySnapshot(i) /\ close(i)
    \/ \E i \in 1..MaxInst, ev \in EmitterEvents, h \in EmitterHandlers :
          MayRegister(i) /\ on(i, ev, h)
    \/ \E i \in 1..MaxInst, ev \in EmitterEvents, h \in EmitterHandlers :
          MayRegister(i) /\ once(i, ev, h)
    \/ \E i \in 1..MaxInst, ev \in EmitterEvents, h \in EmitterHandlers : off(i, ev, h)
    \/ \E i \in 1..MaxInst, ev \in EmitterEvents : emitCall(i, ev)

SpecEmitter == Init /\ [][NextEmitter]_vars

----------------------------------------------------------------------------
(* One widget whose user waits for it to be ready, while it initializes, is  *)
(* initialized again or destroyed.                                           *)

NextReady ==
    \/ \E opt \in CtlOptions : insts = <<>> /\ StaticInit(W1, opt, TRUE)
    \/ \E i \in 1..MaxInst : init(i, TRUE)
    \/ \E k \in 1..MaxCalls, fp \in Fingerprints : InitAfterFingerprint(k, fp)
    \/ \E r \in 1..MaxReqs, ok \in BOOLEAN : doFetchConfigReturn(r, ok, TRUE, 31)
    \/ \E k \in 1..MaxCalls : InitAfterFetch(k)
    \/ \E i \in 1..MaxInst : waitUntilReady(i)
    \/ \E i \in 1..MaxInst : destroy(i)

SpecReady == Init /\ [][NextReady]_vars

----------------------------------------------------------------------------
(* One ready widget whose user is identified, described and forgotten, and   *)
(* feedback submitted on it.                                                 *)

UserIds == {"u1"}

UserDataInputs ==
    {[email |-> "data@x"], [customField |-> "v"], [email |-> "data@x", name |-> "Data"]}

UserTraitInputs == {NoData, [plan |-> "pro"], [email |-> "traits@x"]}

NextUser ==
    \/ \E opt \in CtlOptions : insts = <<>> /\ StaticInit(W1, opt, TRUE)
    \/ \E k \in 1..MaxCalls, fp \in Fingerprints : InitAfterFingerprint(k, fp)
    \/ \E r \in 1..MaxReqs : doFetchConfigReturn(r, TRUE, TRUE, 31)
    \/ \E k \in 1..MaxCalls : InitAfterFetch(k)
    \/ \E i \in 1..MaxInst, data \in UserDataInputs : setData(i, data)
    \/ \E i \in 1..MaxInst, id \in UserIds, traits \in UserTraitInputs :
          identify(i, id, traits)
    \/ \E i \in 1..MaxInst : reset(i)
    \/ \E i \in 1..MaxInst, fb \in FeedbackInputs :
          Len(calls) <= MaxFeedbackCalls /\ submit(i, fb)
    \/ \E k \in 1..MaxCalls : submitOnResponse(k, "ok")
    \/ \E k \in 1..MaxCalls : SubmitSettled(k)

SpecUser == Init /\ [][NextUser]_vars

----------------------------------------------------------------------------
(* One client whose server may never answer.  Time passes and the client's   *)
(* own continuations run; whether and when a fetch() settles is up to the   *)
(* network.                                                                  *)

NextTimeout ==
    \/ Len(calls) < MaxSubmitCalls /\ fetchConfig(1, W1)
    \/ Len(calls) < MaxSubmitCalls /\ submitFeedback(1, W1)
    \/ \E r \in 1..MaxReqs, ok \in BOOLEAN : doFetchConfigReturn(r, ok, TRUE, 31)
    \/ \E k \in 1..MaxCalls : submitAfterRefresh(k)
    \/ \E k \in 1..MaxCalls, resp \in {"ok", "500", "neterr"} : submitOnResponse(k, resp)
    \/ \E d \in Deltas : Tick(d)

SpecTimeout ==
    /\ Init
    /\ [][NextTimeout]_vars
    /\ WF_vars(\E d \in Deltas : Tick(d))
    /\ \A k \in 1..MaxCalls : WF_vars(submitAfterRefresh(k))

----------------------------------------------------------------------------
(* One session in which fingerprints are generated and cleared.              *)

NextFingerprint ==
    \/ \E env \in {"browser", "ssr"}, item \in {NoItem, LegacyUuid} : openSession(env, item)
    \/ \E ok \in BOOLEAN : generateFingerprint(ok)
    \/ \E ok \in BOOLEAN : clearFingerprint(ok)

SpecFingerprint == Init /\ [][NextFingerprint]_vars

----------------------------------------------------------------------------
(* One client whose cache is cleared while a config request is in flight:    *)
(* configs are fetched while the cache holds an entry, fresh or expired, so  *)
(* that a request in flight while the cache is empty was issued before the   *)
(* clearCache() that emptied it.                                             *)

NextStale ==
    \/ (calls = <<>> \/ configCache[1][W1] # NoEntry) /\ fetchConfig(1, W1)
    \/ \E r \in 1..MaxReqs, ok \in BOOLEAN, hasToken \in BOOLEAN :
          doFetchConfigReturn(r, ok, hasToken, 31)
    \/ clearCache(1)
    \/ \E d \in Deltas : Tick(d)

SpecStale == Init /\ [][NextStale]_vars

----------------------------------------------------------------------------
(* One widget with subscribers, one of which throws when it is called.       *)

SubscriberCallbacks == {"cb1", "cbThrows", "cb2"}

NextSubscribers ==
    \/ \E opt \in CtlOptions : insts = <<>> /\ StaticInit(W1, opt, TRUE)
    \/ \E k \in 1..MaxCalls, fp \in Fingerprints : InitAfterFingerprint(k, fp)
    \/ \E r \in 1..MaxReqs, ok \in BOOLEAN : doFetchConfigReturn(r, ok, TRUE, 31)
    \/ \E k \in 1..MaxCalls : InitAfterFetch(k)
    \/ \E i \in 1..MaxInst, cb \in SubscriberCallbacks : MayRegister(i) /\ subscribe(i, cb)
    \/ \E i \in 1..MaxInst : MaySnapshot(i) /\ open(i)
    \/ \E i \in 1..MaxInst : MaySnapshot(i) /\ close(i)
    \/ \E i \in 1..MaxInst : MaySnapshot(i) /\ show(i)
    \/ \E i \in 1..MaxInst : MaySnapshot(i) /\ hide(i)
    \/ \E i \in 1..MaxInst, fb \in FeedbackInputs :
          MaySnapshot(i) /\ Len(calls) <= MaxFeedbackCalls /\ submit(i, fb)
    \/ \E k \in 1..MaxCalls : submitOnResponse(k, "ok")
    \/ \E k \in 1..MaxCalls : SubmitSettled(k)

SpecSubscribers == Init /\ [][NextSubscribers]_vars

----------------------------------------------------------------------------
(* One widget whose init() is called again by its user, between the tasks    *)
(* of the event loop, while an initialization may still be in flight.        *)

NextReinit ==
    \/ \E opt \in CtlOptions : insts = <<>> /\ StaticInit(W1, opt, TRUE)
    \/ \E i \in 1..MaxInst : ~MicrotaskPending /\ init(i, TRUE)
    \/ \E k \in 1..MaxCalls, fp \in Fingerprints : InitAfterFingerprint(k, fp)
    \/ \E r \in 1..MaxReqs, ok \in BOOLEAN, hasToken \in BOOLEAN :
          doFetchConfigReturn(r, ok, hasToken, 31)
    \/ \E k \in 1..MaxCalls : InitAfterFetch(k)
    \/ \E d \in Deltas : Tick(d)

SpecReinit == Init /\ [][NextReinit]_vars

----------------------------------------------------------------------------
(* One client used for two widget identifiers.                               *)

NextTokens ==
    \/ \E w \in {W1, W2} : Len(calls) < MaxSubmitCalls + 1 /\ fetchConfig(1, w)
    \/ \E r \in 1..MaxReqs, ok \in BOOLEAN : doFetchConfigReturn(r, ok, TRUE, 31)
    \/ \E w \in {W1, W2} : Len(calls) < MaxSubmitCalls + 1 /\ submitFeedback(1, w)
    \/ \E k \in 1..MaxCalls : submitAfterRefresh(k)
    \/ \E k \in 1..MaxCalls, resp \in {"ok", "500"} : submitOnResponse(k, resp)
    \/ \E d \in Deltas : ticks < MaxSubmitTicks /\ Tick(d)

SpecTokens == Init /\ [][NextTokens]_vars

----------------------------------------------------------------------------
(* Properties of the ApiClient *)

OutstandingConfig(c, w) ==
    {r \in 1..Len(net) : /\ net[r].kind = "config"
                         /\ net[r].c = c
                         /\ net[r].wid = w
                         /\ net[r].st = "inflight"}

FetchCalls == {k \in 1..Len(calls) : calls[k].op = "fetchConfig"}

SubmitCalls == {k \in 1..Len(calls) : calls[k].op = "submitFeedback"}

\* C1: for one client and one widget id at most one config request is
\* outstanding at any instant; a fetchConfig call made while an earlier
\* fetchConfig call for the same id has not settled issues no request of its
\* own (the earlier call issued the only one), and once both have settled they
\* have the same result.
C1_Deduplication ==
    /\ \A c \in Clients, w \in GoodIds : Cardinality(OutstandingConfig(c, w)) <= 1
    /\ \A k \in FetchCalls :
          calls[k].lead # 0 =>
             /\ calls[k].ref1 = "join"
             /\ calls[k].req1 = calls[calls[k].lead].req1
             /\ calls[calls[k].lead].ref1 \in {"net", "join"}
             /\ calls[k].pc = "done" <=> calls[calls[k].lead].pc = "done"
             /\ calls[k].pc = "done" => calls[k].res = calls[calls[k].lead].res

\* three concurrent fetchConfig calls have settled with the result of one request
C1_Witness ==
    /\ Len(calls) = 3
    /\ \A k \in 1..3 : calls[k].op = "fetchConfig" /\ calls[k].pc = "done"
    /\ calls[1].ref1 = "net"
    /\ calls[2].lead = 1
    /\ calls[3].lead = 1
    /\ calls[3].res = Ok("config", 1)
    /\ Len(net) = 1

\* C2: a fetchConfig(id) made while the cache holds an entry for id that has
\* not expired returns the cached config and issues no network request; the
\* first fetchConfig(id) made at or after the entry's expiry issues a new
\* network request.  (A request for id is pending next to a cached entry only
\* when it was issued after that entry expired, so the first call at or after
\* the expiry is the one that finds no pending request.)
C2_CacheCorrectness ==
  /\ [](\A c \in Clients, w \in GoodIds :
          (configCache[c][w].data # 0 /\ pendingRequests[c][w] # 0)
             => /\ pendingRequests[c][w] > configCache[c][w].data
                /\ now * 1000 >= configCache[c][w].expiresAt)
  /\ [][ (/\ Len(calls') = Len(calls) + 1
         /\ calls'[Len(calls')].op = "fetchConfig"
         /\ calls'[Len(calls')].wid \in GoodIds)
        => LET k == Len(calls')
               c == calls'[k].c
               w == calls'[k].wid
               e == configCache[c][w]
           IN /\ (e.data # 0 /\ now * 1000 < e.expiresAt)
                    => /\ net' = net
                       /\ calls'[k].pc = "done"
                       /\ calls'[k].res = Ok("config", e.data)
              /\ (e.data # 0 /\ now * 1000 >= e.expiresAt /\ pendingRequests[c][w] = 0)
                    => /\ Len(net') = Len(net) + 1
                       /\ net'[Len(net')] = NewReq("config", c, w, 0)
                       /\ calls'[k].pc = "fc_own"
      ]_vars

\* the entry cached at time 0 served a call inside the TTL window, and the call
\* made exactly at its expiry (300 s) went to the network
C2_Witness ==
    /\ now = 300
    /\ configCache[1][W1] = [data |-> 1, expiresAt |-> 300000]
    /\ Len(calls) = 3
    /\ calls[2].op = "fetchConfig" /\ calls[2].ref1 = "cache" /\ calls[2].res = Ok("config", 1)
    /\ calls[3].op = "fetchConfig" /\ calls[3].ref1 = "net" /\ calls[3].req1 = 2

\* C3 (as claimed): after a token-rejection 403 on its first POST, submitFeedback
\* obtains the new token from a config network request (the fetchConfig of the
\* 403 branch is never served from the cache), and once that request has
\* succeeded with a token the call sends its retried POST.
C3_RetryRefetches ==
    \A k \in SubmitCalls :
        (calls[k].p1 # 0 /\ net[calls[k].p1].st = "403token") =>
            /\ calls[k].ref2 \in {"net", "join"}
            /\ submissionToken[calls[k].c] = 0 \/ calls[k].pc # "done" \/ calls[k].p2 # 0

\* C4 (as claimed): when the retried POST fails, the error submitFeedback
\* rejects with is derived from the response to the retried POST.
C4_RetryErrorSurfaced ==
    \A k \in SubmitCalls :
        (calls[k].p2 # 0 /\ calls[k].pc = "done" /\ calls[k].res.st = "err")
            => calls[k].res.r = calls[k].p2

\* C5 (as claimed): a submitFeedback call made while hasValidToken() is false
\* sends its POST only after a config network request has completed, and the
\* POST carries the token issued by that request.
C5_ForcedRefresh ==
    \A k \in SubmitCalls :
        (~calls[k].valid /\ calls[k].p1 # 0) =>
            /\ calls[k].ref1 \in {"net", "join"}
            /\ net[calls[k].p1].token = net[calls[k].req1].token

\* C6: hasValidToken() returns TRUE exactly when a token and an expiry are
\* stored and now < expiry - 30 s (FALSE at expiry = now + 29, TRUE at
\* expiry = now + 31, FALSE without a token), and the call changes no state of
\* the client.
C6_TokenBuffer ==
    /\ [](lastValid.c # 0 =>
            /\ lastValid.value <=> (/\ lastValid.token # 0
                                    /\ lastValid.exp # 0
                                    /\ lastValid.at + 30 < lastValid.exp)
            /\ lastValid.exp = lastValid.at + 29 => ~lastValid.value
            /\ (lastValid.token # 0 /\ lastValid.exp = lastValid.at + 31) => lastValid.value
            /\ lastValid.token = 0 => ~lastValid.value)
    /\ [][lastValid' # lastValid => UNCHANGED <<session, now, ticks, apiVars, net, calls, ctlVars>>]_vars

\* hasValidToken() was called one second after a token with a 31 s lifetime was
\* stored, exactly at expiry - 30, and returned FALSE
C6_Witness ==
    /\ lastValid.c = 1
    /\ lastValid.token # 0
    /\ lastValid.exp = lastValid.at + 30
    /\ ~lastValid.value

----------------------------------------------------------------------------
(* Properties of the controller and its registry *)

\* C7: a static init for an identifier that is registered returns the
\* registered instance and changes nothing else: no instance is created or
\* altered (the options of the call are not applied), no call is started and no
\* request is sent.  A static init for an identifier that is not registered (at
\* first, or after destroy()) returns an instance that did not exist before,
\* built from the call's options, and getInstance returns it from then on.
C7_IdempotentInit ==
    [][lastInit' # lastInit =>
        LET w == lastInit'.wid
            i == lastInit'.inst
        IN IF instances[w] # 0
           THEN /\ i = instances[w]
                /\ UNCHANGED <<insts, instances, calls, net, apiVars>>
           ELSE /\ i = Len(insts) + 1
                /\ Len(insts') = i
                /\ instances'[w] = i
                /\ \A v \in AllIds \ {w} : instances'[v] = instances[v]
                /\ ~insts'[i].destroyed
                /\ insts'[i].config = lastInit'.opt
                /\ \A n \in 1..Len(insts) :
                      /\ insts'[n].state = insts[n].state
                      /\ insts'[n].config = insts[n].config
                      /\ insts'[n].destroyed = insts[n].destroyed]_vars

\* the first instance of W1 was destroyed, a second one was created with the
\* options "light" and became ready, and a later init for W1 with the options
\* "dark" returned that second instance
C7_Witness ==
    /\ Len(insts) = 2
    /\ insts[1].widgetId = W1 /\ insts[1].destroyed
    /\ instances[W1] = 2
    /\ insts[2].config = "light" /\ insts[2].state.isReady
    /\ lastInit = [wid |-> W1, opt |-> "dark", inst |-> 2]

Live(w) == {i \in 1..Len(insts) : insts[i].widgetId = w /\ ~insts[i].destroyed}

\* C8: for every identifier at most one instance that was not destroyed
\* exists, and whenever one exists getInstance returns it.
C8_OneLiveInstance ==
    \A w \in AllIds :
        /\ Cardinality(Live(w)) <= 1
        /\ \A i \in Live(w) : instances[w] = i

\* C9: when an init() whose instance was destroyed while it was in flight
\* completes, the instance stays not ready, its snapshot is not replaced, no
\* subscriber is called and no event is emitted.
C9_DestroyedIsTerminal ==
    [][\A k \in 1..Len(calls) :
          (calls[k].orphan /\ calls[k].pc # "done" /\ calls'[k].pc = "done") =>
              LET i == calls[k].c
              IN /\ ~insts'[i].state.isReady
                 /\ insts'[i].stateSnapshot = insts[i].stateSnapshot
                 /\ insts'[i].notified = <<>>
                 /\ insts'[i].emitted = <<>>]_vars

\* C10: right after destroy() the snapshot is the default one: not ready, not
\* open, not submitting, no error.
C10_SnapshotAfterDestroy ==
    [][\A i \in 1..Len(insts) :
          (~insts[i].destroyed /\ insts'[i].destroyed) =>
              /\ ~insts'[i].stateSnapshot.isReady
              /\ ~insts'[i].stateSnapshot.isOpen
              /\ ~insts'[i].stateSnapshot.isSubmitting
              /\ insts'[i].stateSnapshot.error = NoResult]_vars

----------------------------------------------------------------------------
(* Properties of submit() *)

----------------------------------------------------------------------------
(* Properties of the state snapshot and its subscribers *)

\* the step ran an operation on instance i that called updateState
Mutated(i) ==
    /\ insts'[i] # insts[i]
    /\ \E n \in 1..Len(insts'[i].emitted) : insts'[i].emitted[n] = "stateChange"

\* C12: getSnapshot() returns the same object, unmodified, as long as no
\* state-mutating call is made (ready, error, open, close, show, hide,
\* submitting); every such call makes it return a new object, never one it
\* returned before, holding the new state.
C12_SnapshotIdentity ==
    [][\A i \in 1..Len(insts) :
          /\ insts'[i].snapshotRef >= insts[i].snapshotRef
          /\ insts'[i].snapshotRef = insts[i].snapshotRef =>
                getSnapshot(i)' = getSnapshot(i)
          /\ Mutated(i) <=> insts'[i].snapshotRef > insts[i].snapshotRef
          /\ Mutated(i) => getSnapshot(i)' = insts'[i].state]_vars

\* the ready instance was opened: its third snapshot object, the first to be open
C12_Witness ==
    \E i \in 1..Len(insts) :
        /\ insts[i].snapshotRef = 3
        /\ getSnapshot(i).isReady /\ getSnapshot(i).isOpen
        /\ insts[i].emitted = <<"stateChange", "open">>

\* the callbacks in seq
Members(seq) == {seq[n] : n \in 1..Len(seq)}

C14_OpenBeforeReady ==
    [][\A i \in 1..Len(insts) :
          (/\ ~insts[i].state.isReady
           /\ open(i) \/ (~insts[i].state.isOpen /\ toggle(i))) =>
              /\ insts'[i].state = insts[i].state
              /\ ~insts'[i].state.isOpen
              /\ insts'[i].snapshotRef = insts[i].snapshotRef
              /\ getSnapshot(i)' = getSnapshot(i)
              /\ insts'[i].emitted = <<>>
              /\ insts'[i].invoked = <<>>
              /\ insts'[i].notified = <<>>]_vars

\* the initialization of an instance with a subscriber and an 'error' handler
\* failed, and the operation after it, such as open(), called and emitted
\* nothing
C14_Witness ==
    \E i \in 1..Len(insts) :
        /\ ~insts[i].destroyed
        /\ ~insts[i].state.isReady /\ ~insts[i].state.isOpen
        /\ insts[i].state.error # NoResult
        /\ insts[i].snapshotRef = 2
        /\ Len(insts[i].stateSubscribers) = 1 /\ Len(insts[i].listeners) = 1
        /\ insts[i].emitted = <<>> /\ insts[i].notified = <<>>

----------------------------------------------------------------------------
(* Properties of a failed initialization *)

\* the handlers registered for ev, in registration order
HandlersFor(inst, ev) == SelectSeq(inst.listeners, LAMBDA l : l[1] = ev)

Failed(i) ==
    /\ ~insts[i].destroyed
    /\ insts[i].state.error # NoResult
    /\ ~insts[i].state.isReady

\* the config requests sent for instance i
ConfigRequests(i) == {r \in 1..Len(net) : net[r].kind = "config" /\ net[r].c = i}

\* no init() call on instance i is in flight
NoInitInFlight(i) ==
    \A k \in 1..Len(calls) :
        (calls[k].op = "init" /\ calls[k].c = i) => calls[k].pc = "done"

\* C16, as claimed: once its initialization has failed, an instance that is
\* not destroyed never becomes ready and no further config request is sent
\* for it.
C16_PermanentError ==
    [][\A i \in 1..Len(insts) :
          Failed(i) =>
              /\ ~insts'[i].state.isReady
              /\ ConfigRequests(i)' = ConfigRequests(i)]_vars

\* C16, amended: an instance whose initialization has failed and that has no
\* init() call in flight stays failed until it is destroyed, and no config
\* request is sent for it, whatever time passes: nothing but a new call of
\* init() on the instance restarts the initialization.
C16_NoAutomaticRetry ==
    [][\A i \in 1..Len(insts) :
          (Failed(i) /\ NoInitInFlight(i)) =>
              /\ Failed(i)' \/ insts'[i].destroyed
              /\ ConfigRequests(i)' = ConfigRequests(i)]_vars

\* the only config request of the instance failed, no init() is in flight,
\* and five minutes later the instance is still failed
C16_Witness ==
    \E i \in 1..Len(insts) :
        /\ Failed(i) /\ NoInitInFlight(i)
        /\ insts[i].state.error.kind = "fail"
        /\ Cardinality(ConfigRequests(i)) = 1
        /\ now >= 300

\* a message that is empty or made of whitespace only
Blank(fb) == fb.message.n = 0 \/ fb.message.ch = " "

\* a call of submit() on instance i that sent nothing and changed nothing
\* but the result it returned
RejectedEarly(i) ==
    /\ net' = net
    /\ calls' = calls
    /\ pendingRequests' = pendingRequests
    /\ insts'[i].state = insts[i].state
    /\ insts'[i].snapshotRef = insts[i].snapshotRef
    /\ insts'[i].emitted = <<>>
    /\ insts'[i].notified = <<>>

\* C17: submit() on an instance that is not ready rejects with the not-ready
\* error, and submit() on a ready instance with an empty or whitespace-only
\* message rejects with the message-required error; in both cases no network
\* request is made and the call does not set isSubmitting.
C17_SubmitRejected ==
    [][\A i \in 1..Len(insts), fb \in FeedbackInputs :
          submit(i, fb) =>
              /\ ~insts[i].state.isReady =>
                    /\ insts'[i].returned = Err("notready", 0)
                    /\ RejectedEarly(i)
              /\ (insts[i].state.isReady /\ Blank(fb)) =>
                    /\ insts'[i].returned = Err("required", 0)
                    /\ RejectedEarly(i)]_vars

\* a ready instance has rejected a submit() for its missing message, and no
\* feedback request was ever sent
C17_Witness ==
    \E i \in 1..Len(insts) :
        /\ insts[i].state.isReady
        /\ insts[i].returned = Err("required", 0)
        /\ \A r \in 1..Len(net) : net[r].kind = "config"

\* the values of EmojiSentiment; "none" stands for a feedback without one
Sentiments == {"angry", "disappointed", "satisfied", "excited"}

\* a feedback the claimed validation refuses
Invalid(fb) ==
    \/ fb.message.n > 10000
    \/ fb.sentiment \notin Sentiments \cup {"none"}
    \/ fb.metadata.n > 1000

\* C18: submit() on a ready instance accepts a message of exactly 10,000
\* characters and rejects, before any network call, a message of 10,001
\* characters, a sentiment outside the enumeration and a metadata value of
\* more than 1,000 characters.
C18_FeedbackValidated ==
    [][\A i \in 1..Len(insts), fb \in Feedbacks :
          (submit(i, fb) /\ insts[i].state.isReady /\ ~Blank(fb)) =>
              IF Invalid(fb)
              THEN /\ insts'[i].returned.st = "err"
                   /\ net' = net
                   /\ insts'[i].state = insts[i].state
              ELSE /\ Len(net') = Len(net) + 1
                   /\ insts'[i].state.isSubmitting]_vars

\* the outcome events among the events an instance emitted in the last step
OutcomeEvents(inst) == SelectSeq(inst.emitted, LAMBDA ev : ev \in {"submit", "error"})

C20_FailureMirrored ==
    [][\A i \in 1..Len(insts) : \A p \in insts[i].pending :
          (p \notin insts'[i].pending /\ calls[p.call].res.st = "err") =>
              /\ insts'[i].returned = calls[p.call].res
              /\ insts'[i].args = << <<"error", insts'[i].returned>> >>
              /\ getSnapshot(i)'.error = insts'[i].returned]_vars

\* the first POST of submitFeedback call k is answered with resp in this step
FirstPostAnswered(k, resp) ==
    /\ calls[k].op = "submitFeedback"
    /\ calls[k].pc = "sf_post"
    /\ net[calls[k].p1].st = "inflight"
    /\ net'[calls[k].p1].st = resp

\* C21: when the first POST is answered 403 with a structured code and
\* message, submitFeedback fails at once with that message: the stored token
\* and expiry are kept, no config request and no second POST are sent.
C21_PlanLimitFailsFast ==
    [][\A k \in 1..Len(calls) :
          FirstPostAnswered(k, "403plan") =>
              /\ calls'[k].pc = "done"
              /\ calls'[k].res = Err("plan", calls[k].p1)
              /\ calls'[k].p2 = 0 /\ calls'[k].req2 = 0
              /\ submissionToken' = submissionToken
              /\ tokenExpiresAt' = tokenExpiresAt
              /\ pendingRequests' = pendingRequests
              /\ Len(net') = Len(net)]_vars

\* a submitFeedback call has failed with the plan-limit message while the
\* token it sent is still stored
C21_Witness ==
    \E k \in 1..Len(calls) :
        /\ calls[k].pc = "done"
        /\ calls[k].res.kind = "plan"
        /\ submissionToken[calls[k].c] = net[calls[k].p1].token

\* the feedback POSTs submitFeedback call k has sent
PostsOf(k) == {calls[k].p1, calls[k].p2} \ {0}

\* the responses after which submitFeedback gives up at once
FinalFailures == {"429", "403plan", "403other", "500", "neterr", "blocked"}

\* C22: every feedback POST is the first or the second POST of exactly one
\* submitFeedback call, a call sends its second POST only after its first was
\* answered with a token-rejection 403, and after a 429, another failure
\* status, a soft block or a transport failure of the first POST the call
\* rejects at once and sends nothing.
C22_SingleRetry ==
    /\ [](/\ \A r \in 1..Len(net) :
               net[r].kind = "post" =>
                   Cardinality({k \in 1..Len(calls) : r \in PostsOf(k)}) = 1
          /\ \A k \in 1..Len(calls) :
               /\ calls[k].p2 # 0 => net[calls[k].p1].st = "403token"
               /\ calls[k].p2 # calls[k].p1 \/ calls[k].p1 = 0)
    /\ [][\A k \in 1..Len(calls) : \A resp \in FinalFailures :
             FirstPostAnswered(k, resp) =>
                 /\ calls'[k].pc = "done"
                 /\ calls'[k].res.st = "err"
                 /\ calls'[k].res.r = calls[k].p1
                 /\ Len(net') = Len(net)
                 /\ pendingRequests' = pendingRequests
                 /\ submissionToken' = submissionToken]_vars

\* a call has sent its second POST after a token rejection, the second POST
\* was answered 429, and the call has settled having sent two POSTs
C22_Witness ==
    \E k \in 1..Len(calls) :
        /\ calls[k].pc = "done"
        /\ Cardinality(PostsOf(k)) = 2
        /\ net[calls[k].p1].st = "403token"
        /\ net[calls[k].p2].st = "429"

\* C23: a submitFeedback call whose feedback POST was answered with a success
\* status and the blocked flag is rejected with the block message of that
\* response; the response is never returned.
C23_SoftBlockRejected ==
    \A k \in 1..Len(calls) : \A p \in PostsOf(k) :
        (calls[k].pc = "done" /\ net[p].st = "blocked") =>
            calls[k].res = Err("blocked", p)

\* what clearCache() leaves behind: no cached entry, no token, no expiry, and
\* hasValidToken() false
Cleared(c) ==
    /\ \A w \in GoodIds : configCache[c][w] = NoEntry
    /\ submissionToken[c] = 0
    /\ tokenExpiresAt[c] = 0
    /\ ~hasValidToken(c)

\* C24, as claimed: after clearCache() nothing is cached, hasValidToken() is
\* false, and the next fetchConfig(id) for any (valid) identifier issues a
\* network request.
C24_ClearCacheRefetches ==
    [][clearCache(1) =>
          /\ Cleared(1)'
          /\ \A w \in GoodIds : FetchKind(1, w)' = "net"]_vars

\* C24, amended: after clearCache() nothing is cached and hasValidToken() is
\* false; a fetchConfig(id) called right after it returns no cached value: it
\* issues a network request, or joins the request for id that was in flight
\* when the cache was cleared.  Whenever no entry is cached for id, a
\* fetchConfig(id) call issues a request or joins the pending one.
C24_ClearCacheDrops ==
    /\ [][clearCache(1) =>
             /\ Cleared(1)'
             /\ pendingRequests' = pendingRequests
             /\ \A w \in GoodIds :
                  FetchKind(1, w)' = IF pendingRequests[1][w] # 0 THEN "join" ELSE "net"]_vars
    /\ [][(/\ Len(calls') = Len(calls) + 1
           /\ calls'[Len(calls')].op = "fetchConfig"
           /\ calls'[Len(calls')].wid \in GoodIds
           /\ configCache[1][calls'[Len(calls')].wid] = NoEntry) =>
              LET k == Len(calls')
                  w == calls'[k].wid
              IN IF pendingRequests[1][w] # 0
                 THEN /\ calls'[k].pc = "fc_join"
                      /\ calls'[k].req1 = pendingRequests[1][w]
                      /\ net' = net
                 ELSE /\ calls'[k].pc = "fc_own"
                      /\ calls'[k].req1 = Len(net) + 1
                      /\ net' = Append(net, NewReq("config", 1, w, 0))]_vars

\* a config was fetched and cached, the cache was cleared inside the TTL
\* window, and the fetchConfig call that followed issued a second request
C24_Witness ==
    /\ now = 0
    /\ Len(net) = 2
    /\ net[1].st = "ok" /\ net[1].wid = W1
    /\ net[2].st = "inflight" /\ net[2].wid = W1
    /\ Cleared(1)
    /\ \E k \in 1..Len(calls) :
         calls[k].op = "fetchConfig" /\ calls[k].pc = "fc_own" /\ calls[k].req1 = 2

\* the characters of the inputs that are letters, digits, underscore or hyphen
Allowed == {"w", "1", "2", "_", "-"}

\* an identifier the claim says is rejected
BadId(w) ==
    \/ Len(w) = 0
    \/ Len(w) > 64
    \/ \E n \in 1..Len(w) : w[n] \notin Allowed

\* C25: the identifiers that are empty, longer than 64 characters or hold a
\* character outside letters, digits, underscore and hyphen are exactly the
\* ones validateWidgetId refuses (one of 64 characters passes), and a
\* fetchConfig or submitFeedback call with such an identifier rejects at once:
\* no request is sent and the cache, the in-flight map, the token and its
\* expiry are unchanged.
C25_IdValidated ==
    /\ [](/\ \A w \in IdInputs : BadId(w) <=> validateWidgetId(w) # "ok"
          /\ validateWidgetId([n \in 1..64 |-> "w"]) = "ok")
    /\ [][(/\ Len(calls') = Len(calls) + 1
           /\ BadId(calls'[Len(calls')].wid)) =>
              /\ calls'[Len(calls')].pc = "done"
              /\ calls'[Len(calls')].res \in
                    {Err("required", 0), Err("format", 0), Err("length", 0)}
              /\ net' = net
              /\ configCache' = configCache
              /\ pendingRequests' = pendingRequests
              /\ submissionToken' = submissionToken
              /\ tokenExpiresAt' = tokenExpiresAt]_vars

\* a submitFeedback of the 65-character identifier was rejected while a token
\* is stored and a config is cached
C25_Witness ==
    /\ submissionToken[1] # 0
    /\ configCache[1][W1] # NoEntry
    /\ \E k \in 1..Len(calls) :
         /\ calls[k].op = "submitFeedback" /\ calls[k].wid = WLong
         /\ calls[k].res = Err("length", 0)

\* C26: a submitFeedback call made for a valid identifier while the token is
\* valid sends a feedback POST of its own, no POST belongs to two calls, and
\* the response to a call's first POST settles that call with the outcome of
\* that response and leaves every other call as it is.
C26_NoCoalescing ==
    /\ [](\A k, j \in 1..Len(calls) : k # j => PostsOf(k) \cap PostsOf(j) = {})
    /\ [][(/\ Len(calls') = Len(calls) + 1
           /\ calls'[Len(calls')].op = "submitFeedback"
           /\ ~BadId(calls'[Len(calls')].wid)
           /\ hasValidToken(calls'[Len(calls')].c)) =>
              LET k == Len(calls')
              IN /\ net' = Append(net, NewReq("post", calls'[k].c, calls'[k].wid,
                                              submissionToken[calls'[k].c]))
                 /\ calls'[k].pc = "sf_post"
                 /\ calls'[k].p1 = Len(net')]_vars
    /\ [][\A k \in 1..Len(calls) : \A resp \in PostResponses \ {"403token"} :
             FirstPostAnswered(k, resp) =>
                 /\ calls'[k].pc = "done"
                 /\ calls'[k].res = FirstPostResult(resp, calls[k].p1)
                 /\ \A j \in 1..Len(calls) : j # k => calls'[j] = calls[j]]_vars

\* two calls were made while the token was valid and sent one POST each; one
\* has resolved with the response to its POST while the POST of the other is
\* still in flight
C26_Witness ==
    \E k, j \in 1..Len(calls) :
        /\ k # j
        /\ calls[k].valid /\ calls[j].valid
        /\ calls[k].pc = "done" /\ calls[k].res = Ok("response", calls[k].p1)
        /\ calls[j].pc = "sf_post" /\ net[calls[j].p1].st = "inflight"
        /\ calls[j].p1 < calls[k].p1

\* the handler calls instance inst made for 'open' in the last operation
OpenCalls(inst) == SelectSeq(inst.invoked, LAMBDA c : c[1] = "open")

\* the handlers registered for 'open' on instance i
OpenHandlers(i) == HandlerSet(insts[i].listeners, "open")

\* instance i emits 'open' in this step: emit('open') is called on its
\* emitter, or open() is called on it and emits
EmitsOpen(i) ==
    /\ emitCall(i, "open") \/ open(i)
    /\ \E n \in 1..Len(insts'[i].emitted) : insts'[i].emitted[n] = "open"

\* C27: when 'open' is emitted to handlers that return or throw, every one
\* of them is called, in order, whether or not the ones before it threw, and
\* each exception is logged by emit, which runs to its end.
C27_HandlerIsolation ==
    [][\A i \in 1..Len(insts) :
          (/\ EmitsOpen(i)
           /\ \A n \in 1..Len(OpenHandlers(i)) :
                Body(Callback(OpenHandlers(i)[n])) \in {"return", "throw"}) =>
              LET calls_ == [n \in 1..Len(OpenHandlers(i)) |-> <<"open", OpenHandlers(i)[n]>>]
              IN /\ OpenCalls(insts'[i]) = calls_
                 /\ insts'[i].logged =
                       SelectSeq(calls_, LAMBDA c : Body(Callback(c[2])) = "throw")
                 /\ insts'[i].emitted[Len(insts'[i].emitted)] = "open"]_vars

\* the first of two handlers threw, its exception was logged and the second
\* handler was called
C27_Witness ==
    \E i \in 1..Len(insts) :
        /\ insts[i].invoked = << <<"open", "hThrows">>, <<"open", "h1">> >>
        /\ insts[i].logged = << <<"open", "hThrows">> >>

\* how often x occurs in seq
Count(seq, x) == Cardinality({n \in 1..Len(seq) : seq[n] = x})

C29_EmitSnapshot ==
    [][\A i \in 1..Len(insts) :
          (/\ EmitsOpen(i)
           /\ \A n \in 1..Len(OpenHandlers(i)) :
                Body(Callback(OpenHandlers(i)[n])) \in {"return", "throw", "on", "off"}) =>
              SelectSeq(OpenCalls(insts'[i]),
                        LAMBDA c : \E n \in 1..Len(OpenHandlers(i)) : OpenHandlers(i)[n] = c[2]) =
                  [n \in 1..Len(OpenHandlers(i)) |-> <<"open", OpenHandlers(i)[n]>>]]_vars

\* instance i emits ev in this step
EmittedNow(i, ev) ==
    /\ insts'[i] # insts[i]
    /\ \E n \in 1..Len(insts'[i].emitted) : insts'[i].emitted[n] = ev

\* C30: waitUntilReady() on a ready instance returns a resolved promise, on
\* an instance with a recorded error a promise rejected with that error, and
\* otherwise a pending promise; a pending promise resolves in the step in
\* which 'ready' is emitted, is rejected with the error in the step in which
\* 'error' is emitted, and a settled promise never changes.
C30_WaitUntilReady ==
    [][\A i \in 1..Len(insts) :
          /\ waitUntilReady(i) =>
                LET w == insts'[i].waiters[Len(insts'[i].waiters)]
                    st == insts[i].state
                IN /\ st.isReady => w = [st |-> "resolved", res |-> NoResult]
                   /\ (~st.isReady /\ st.error # NoResult) =>
                         w = [st |-> "rejected", res |-> st.error]
                   /\ (~st.isReady /\ st.error = NoResult) => w.st = "pending"
          /\ \A n \in 1..Len(insts[i].waiters) :
                LET w == insts[i].waiters[n]
                    v == insts'[i].waiters[n]
                IN /\ w.st # "pending" => v = w
                   /\ (w.st = "pending" /\ EmittedNow(i, "ready")) => v.st = "resolved"
                   /\ (w.st = "pending" /\ EmittedNow(i, "error")) =>
                         /\ v.st = "rejected"
                         /\ insts'[i].args = << <<"error", v.res>> >>
                   /\ (w.st = "pending" /\ ~EmittedNow(i, "ready") /\ ~EmittedNow(i, "error")) =>
                         v = w]_vars

\* a user id, user data or traits have been set since construction or reset()
UserKnown(inst) ==
    inst.userId # NoUser \/ inst.userData # NoData \/ inst.userTraits # NoData

Without(f, keys) == [k \in DOMAIN f \ keys |-> f[k]]

Preferred(inst, key) ==
    IF key \in DOMAIN inst.userData THEN inst.userData[key]
    ELSE IF key \in DOMAIN inst.userTraits THEN inst.userTraits[key]
    ELSE "undefined"

\* the user block the payload is to carry
UserBlock(inst) ==
    [user_id |-> inst.userId,
     email |-> Preferred(inst, "email"),
     name |-> Preferred(inst, "name"),
     traits |-> Without(inst.userTraits, {"email", "name"}),
     custom_data |-> Without(inst.userData, {"email", "name"})]

HasUserBlock(payload) == "user" \in DOMAIN payload.metadata

\* C31: the payload a submit() call hands to the client contains a user block
\* exactly when a user id, user data or traits are set, and the block carries
\* the user id, the email and name with setData values preferred over traits,
\* the remaining traits and the remaining setData values as custom data.
C31_UserBlockSent ==
    [][\A i \in 1..Len(insts), fb \in FeedbackInputs :
          submit(i, fb) =>
             \A p \in insts'[i].pending \ insts[i].pending :
                /\ HasUserBlock(p.payload) <=> UserKnown(insts[i])
                /\ HasUserBlock(p.payload) =>
                      p.payload.metadata.user = UserBlock(insts[i])]_vars

\* C32: every fetchConfig and submitFeedback call eventually settles, also
\* when the server never answers, and the in-flight entry of the identifier
\* is eventually released.
C32_CallsSettle ==
    /\ \A k \in 1..MaxCalls :
          (k <= Len(calls)) ~> (k <= Len(calls) /\ calls[k].pc = "done")
    /\ (pendingRequests[1][W1] # 0) ~> (pendingRequests[1][W1] = 0)

\* the last generateFingerprint() call before call n, when no clearFingerprint()
\* lies between them (0: none)
PreviousGenerate(ops, n) ==
    IF n > 1 /\ ops[n - 1].op = "generate" THEN n - 1 ELSE 0

\* the values generateFingerprint() returned in calls 1..n
Returned(ops, n) == {ops[m].value : m \in {j \in 1..n : ops[j].op = "generate"}}

\* call n of the session does what the claim says of it: a generate() that
\* follows a generate() returns the same value, and a generate() that follows
\* a clear() returns a value not returned before and stores it
AsClaimed(n) ==
    LET ops == session.ops
    IN ops[n].op = "generate" =>
          /\ PreviousGenerate(ops, n) # 0 =>
                ops[n].value = ops[PreviousGenerate(ops, n)].value
          /\ (n > 1 /\ ops[n - 1].op = "clear") =>
                /\ ops[n].value \notin Returned(ops, n - 1)
                /\ n = Len(ops) => session.item = ops[n].value

StorageWorks(n) ==
    /\ session.env = "browser"
    /\ \A m \in 1..n : session.ops[m].ok

C34_SubmittingWhilePending ==
    \A i \in 1..Len(insts) :
        (~insts[i].destroyed /\ insts[i].pending # {}) =>
            insts[i].stateSnapshot.isSubmitting

\* C35: a submitFeedback call never resolves with the response of a POST that
\* carries the blocked flag, whether that POST was its first or its retry.
C35_NeverResolvesBlocked ==
    \A k \in 1..Len(calls) :
        (calls[k].op = "submitFeedback" /\ calls[k].res.st = "ok") =>
            net[calls[k].res.r].st # "blocked"

\* a config was cached once: an empty cache has been emptied by clearCache()
WasCached == \E r \in 1..Len(net) : net[r].kind = "config" /\ net[r].st = "ok"

\* C36: when a config request that was in flight when clearCache() ran
\* completes, the client still holds no token and no cached config.
C36_ClearedStaysCleared ==
    [][\A r \in 1..Len(net) :
          (/\ WasCached
           /\ Cleared(1)
           /\ net[r].kind = "config"
           /\ net[r].st = "inflight"
           /\ net'[r].st # "inflight") => Cleared(1)']_vars

\* the config requests of client 1 for identifier w, in the order of issue
ConfigRequests1(w) ==
    SelectSeq([r \in 1..Len(net) |-> r],
              LAMBDA r : net[r].kind = "config" /\ net[r].c = 1 /\ net[r].wid = w)

\* the latest config request for w failed
FailedLast(w) ==
    /\ ConfigRequests1(w) # <<>>
    /\ net[ConfigRequests1(w)[Len(ConfigRequests1(w))]].st = "fail"

\* C37: the step in which a config request fails changes neither the cache
\* nor the token nor its expiry, removes the in-flight entry of the identifier
\* and settles the fetchConfig calls that awaited it with the failure; and a
\* fetchConfig(id) called when the latest request for id has failed issues a
\* new request.
C37_FailureLeavesNoTrace ==
    /\ [][\A r \in 1..Len(net) :
             (net[r].kind = "config" /\ net[r].st = "inflight" /\ net'[r].st = "fail") =>
                /\ configCache' = configCache
                /\ submissionToken' = submissionToken
                /\ tokenExpiresAt' = tokenExpiresAt
                /\ pendingRequests'[net[r].c][net[r].wid] = 0
                /\ \A k \in 1..Len(calls) :
                      (calls[k].op = "fetchConfig" /\ calls[k].req1 = r) =>
                         (calls'[k].pc = "done" /\ calls'[k].res = Err("fail", r))]_vars
    /\ [][\A w \in GoodIds :
             (FailedLast(w) /\ fetchConfig(1, w)) =>
                net' = Append(net, NewReq("config", 1, w, 0))]_vars

C37_Witness ==
    /\ Len(net) >= 3
    /\ net[1].st = "ok"
    /\ submissionToken[1] = 1
    /\ configCache[1][W1].data = 1
    /\ net[2].st = "fail"
    /\ net[3].kind = "config"
    /\ net[3].wid = net[2].wid

\* C38: no exception of a subscriber leaves the operation that changed the
\* state, every subscriber is called when one is, and a ready instance has no
\* error recorded.
C38_SubscriberIsolation ==
    \A i \in 1..Len(insts) :
        /\ insts[i].thrown = NoResult
        /\ insts[i].notified # <<>> =>
              \A cb \in Range(insts[i].stateSubscribers) :
                  \E n \in 1..Len(insts[i].notified) : insts[i].notified[n].cb = cb
        /\ insts[i].state.isReady => insts[i].state.error = NoResult

\* C39: 'ready' is emitted only in a step that takes the instance from not
\* ready to ready, never on an instance that is ready already.
C39_ReadyOnce ==
    [][\A i \in 1..Len(insts) :
          EmittedNow(i, "ready") => ~insts[i].state.isReady]_vars

\* C40: the token a feedback POST for an identifier carries was issued by a
\* config response for that identifier (a token is named by the config
\* request whose response issued it).
C40_TokenOfSameWidget ==
    \A p \in 1..Len(net) :
        net[p].kind = "post" =>
            /\ net[p].token # 0
            /\ net[net[p].token].kind = "config"
            /\ net[net[p].token].wid = net[p].wid

====
